---- MODULE Spec2Model ----
(***************************************************************************)
(* RadminTelegramBot: the admission path of the bot (authorization, rate   *)
(* limiting, command classification, sessions) and the monitoring engine.  *)
(*                                                                         *)
(* Time is an integer clock `now`; one clock unit stands for a fixed       *)
(* number of seconds, and every configured duration (rate-limit window,    *)
(* session timeout, alert cooldown, monitoring interval) is counted in     *)
(* that unit.  Strings are TLA+ strings, read with Len and SubSeq.         *)
(***************************************************************************)
EXTENDS Integers, Sequences, FiniteSets, TLC

\* ------------------------------------------------------------------ bounds
MaxTime == 3
MaxUser == 3
MaxCalls == 3
NumWorkers == 2
MaxBurstTime == 8

\* ------------------------------------------------------- strings (Go: strings)
Char(s, i) == SubSeq(s, i, i)

HasPrefix(s, prefix) ==
    Len(s) >= Len(prefix) /\ SubSeq(s, 1, Len(prefix)) = prefix

TrimPrefix(s, prefix) ==
    IF HasPrefix(s, prefix) THEN SubSeq(s, Len(prefix) + 1, Len(s)) ELSE s

HasSuffix(s, suffix) ==
    Len(s) >= Len(suffix) /\ SubSeq(s, Len(s) - Len(suffix) + 1, Len(s)) = suffix

Contains(s, substr) ==
    \E i \in 1..(Len(s) - Len(substr) + 1) : SubSeq(s, i, i + Len(substr) - 1) = substr

IsSpace(c) == c \in {" ", "\t", "\n", "\r", "\f"}

TrimSpace(s) ==
    LET idx == {i \in 1..Len(s) : ~IsSpace(Char(s, i))}
    IN  IF idx = {} THEN ""
        ELSE LET lo == CHOOSE i \in idx : \A j \in idx : i <= j
                 hi == CHOOSE i \in idx : \A j \in idx : i >= j
             IN  SubSeq(s, lo, hi)

Uppers == "ABCDEFGHIJKLMNOPQRSTUVWXYZ"
Lowers == "abcdefghijklmnopqrstuvwxyz"

LowerChar(c) ==
    IF \E i \in 1..Len(Uppers) : Char(Uppers, i) = c
    THEN Char(Lowers, CHOOSE i \in 1..Len(Uppers) : Char(Uppers, i) = c)
    ELSE c

RECURSIVE ToLower(_)
ToLower(s) ==
    IF Len(s) = 0 THEN ""
    ELSE LowerChar(Char(s, 1)) \o ToLower(SubSeq(s, 2, Len(s)))

\* strings.Fields: the maximal runs of non-space characters, in order.
RECURSIVE Fields(_)
Fields(s) ==
    LET idx == {i \in 1..Len(s) : ~IsSpace(Char(s, i))}
    IN  IF idx = {} THEN << >>
        ELSE LET lo == CHOOSE i \in idx : \A j \in idx : i <= j
                 sp == {i \in lo..Len(s) : IsSpace(Char(s, i))}
                 hi == IF sp = {} THEN Len(s)
                       ELSE (CHOOSE i \in sp : \A j \in sp : i <= j) - 1
             IN  <<SubSeq(s, lo, hi)>> \o Fields(SubSeq(s, hi + 1, Len(s)))

\* ------------------------------------------------------------- state
VARIABLES
    config,      \* config.Config, loaded once at startup and never written
    now,         \* the wall clock read by time.Now()
    rateLimits,  \* AuthManager.rateLimits: userID -> RateLimit
    sessions,    \* Bot.sessions: userID -> UserSession
    ret,         \* the last call or update handled and its outcome
    trace,       \* the calls the last handled update evaluated, in order
    hist,        \* per identity: start of its current window, calls made in it
    mu,          \* AuthManager.mu: the worker holding it, 0 when free
    calls,       \* per worker: the CheckRateLimit call it is in
    admitted,    \* per identity: calls admitted under one WindowStart
    isRunning,   \* MonitoringManager.isRunning
    lastAlerts,  \* MonitoringManager.lastAlerts: alertType -> time
    mon,         \* the monitoring goroutine: position, alert type, sample
    ctxDone,     \* the context passed to StartMonitoring is cancelled
    ticker,      \* the time.Ticker: next due time, tick waiting in ticker.C
    cb,          \* per alert type: time of the last alertCallback call
    cpuLog,      \* the last two health checks' "cpu" evaluations
    further,     \* health checks begun after the cancellation
    burst,       \* the times of one identity's latest admitted calls
    mmu,         \* MonitoringManager.mu: its writer, 0 when none, and its readers
    eng,         \* the engine inside shouldSendAlert and updateLastAlert
    qry,         \* a GetAlertHistory call and the map it returned
    sm,          \* per worker: the StartMonitoring call it is in
    bmu,         \* Bot.mu: 1 while the update loop holds it, 0 when free
    hpc,         \* the update loop: its position and the update in hand
    probe        \* one earlier ValidateCommand or ValidateFilePath call, kept

UserIDs == 1..MaxUser



Put(map, key, val) == [k \in DOMAIN map \cup {key} |-> IF k = key THEN val ELSE map[k]]

Drop(map, key) == [k \in DOMAIN map \ {key} |-> map[k]]

\* What a map lookup gives for key v: the entry, or its absence.
Entry(rl, v) == IF v \in DOMAIN rl THEN <<rl[v]>> ELSE << >>

\* ------------------------------------------------------- AuthManager
IsAuthorizedFirstOnly(userID) ==
    Len(config.AllowedUsers) >= 1 /\ config.AllowedUsers[1] = userID

\* The loop over AllowedUsers returns true at the first equal element.
IsAuthorized(userID) ==
    \E i \in 1..Len(config.AllowedUsers) : config.AllowedUsers[i] = userID

CheckRateLimitOffByOne(rl, userID, t) ==
    IF userID \notin DOMAIN rl
    THEN [ok |-> TRUE,
          rateLimits |-> Put(rl, userID, [Commands |-> 1, WindowStart |-> t])]
    ELSE IF t - rl[userID].WindowStart > config.RateLimitWindow
    THEN [ok |-> TRUE,
          rateLimits |-> Put(rl, userID, [Commands |-> 1, WindowStart |-> t])]
    ELSE IF rl[userID].Commands > config.RateLimitCommands
    THEN [ok |-> FALSE, rateLimits |-> rl]
    ELSE [ok |-> TRUE,
          rateLimits |-> Put(rl, userID, [Commands |-> rl[userID].Commands + 1,
                                          WindowStart |-> rl[userID].WindowStart])]

CheckRateLimitCountFromZero(rl, userID, t) ==
    IF userID \notin DOMAIN rl
    THEN [ok |-> TRUE,
          rateLimits |-> Put(rl, userID, [Commands |-> 0, WindowStart |-> t])]
    ELSE IF t - rl[userID].WindowStart > config.RateLimitWindow
    THEN [ok |-> TRUE,
          rateLimits |-> Put(rl, userID, [Commands |-> 0, WindowStart |-> t])]
    ELSE IF rl[userID].Commands >= config.RateLimitCommands
    THEN [ok |-> FALSE, rateLimits |-> rl]
    ELSE [ok |-> TRUE,
          rateLimits |-> Put(rl, userID, [Commands |-> rl[userID].Commands + 1,
                                          WindowStart |-> rl[userID].WindowStart])]

CheckRateLimitRejectExtends(rl, userID, t) ==
    IF userID \notin DOMAIN rl
    THEN [ok |-> TRUE,
          rateLimits |-> Put(rl, userID, [Commands |-> 1, WindowStart |-> t])]
    ELSE IF t - rl[userID].WindowStart > config.RateLimitWindow
    THEN [ok |-> TRUE,
          rateLimits |-> Put(rl, userID, [Commands |-> 1, WindowStart |-> t])]
    ELSE IF rl[userID].Commands >= config.RateLimitCommands
    THEN [ok |-> FALSE,
          rateLimits |-> Put(rl, userID, [Commands |-> rl[userID].Commands,
                                          WindowStart |-> t])]
    ELSE [ok |-> TRUE,
          rateLimits |-> Put(rl, userID, [Commands |-> rl[userID].Commands + 1,
                                          WindowStart |-> rl[userID].WindowStart])]

CheckRateLimitLimitFirst(rl, userID, t) ==
    IF userID \notin DOMAIN rl
    THEN [ok |-> TRUE,
          rateLimits |-> Put(rl, userID, [Commands |-> 1, WindowStart |-> t])]
    ELSE IF rl[userID].Commands >= config.RateLimitCommands
    THEN [ok |-> FALSE, rateLimits |-> rl]
    ELSE IF t - rl[userID].WindowStart > config.RateLimitWindow
    THEN [ok |-> TRUE,
          rateLimits |-> Put(rl, userID, [Commands |-> 1, WindowStart |-> t])]
    ELSE [ok |-> TRUE,
          rateLimits |-> Put(rl, userID, [Commands |-> rl[userID].Commands + 1,
                                          WindowStart |-> rl[userID].WindowStart])]

\* CheckRateLimit at clock value t: the result and the map it leaves.
CheckRateLimit(rl, userID, t) ==
    IF userID \notin DOMAIN rl
    THEN [ok |-> TRUE,
          rateLimits |-> Put(rl, userID, [Commands |-> 1, WindowStart |-> t])]
    ELSE IF t - rl[userID].WindowStart > config.RateLimitWindow
    THEN [ok |-> TRUE,
          rateLimits |-> Put(rl, userID, [Commands |-> 1, WindowStart |-> t])]
    ELSE IF rl[userID].Commands >= config.RateLimitCommands
    THEN [ok |-> FALSE, rateLimits |-> rl]
    ELSE [ok |-> TRUE,
          rateLimits |-> Put(rl, userID, [Commands |-> rl[userID].Commands + 1,
                                          WindowStart |-> rl[userID].WindowStart])]

ClearRateLimitAll(rl, userID) == << >>

\* ClearRateLimit that empties the window and keeps the entry.
ClearRateLimitKeepEntry(rl, userID) ==
    IF userID \in DOMAIN rl
    THEN Put(rl, userID, [Commands |-> 0, WindowStart |-> rl[userID].WindowStart])
    ELSE rl

ClearRateLimit(rl, userID) == Drop(rl, userID)

dangerousCommands ==
    {"rm -rf /", "rm -rf /*", "mkfs", "dd if=/dev/zero", "dd if=/dev/random",
     ":(){ :|:& };:", "sudo dd", "sudo mkfs", "sudo rm -rf", "> /dev/sda",
     "> /dev/disk", "fdisk", "parted", "cfdisk"}

dangerousPatterns ==
    {"rm -rf", "rm -fr", "rm -r /", "rm -rf ~", "rm -rf $HOME", ">/dev/sd",
     ">/dev/hd", ">/dev/disk", "curl | sh", "wget | sh", "curl | bash",
     "wget | bash", "sudo passwd", "sudo su", "chmod 777 /", "chown -R"}

ValidateCommandNoChain(command) ==
    LET c == TrimSpace(ToLower(command))
    IN  /\ c \notin dangerousCommands
        /\ \A pattern \in dangerousPatterns : ~Contains(c, pattern)

ValidateCommandNoLower(command) ==
    LET c == TrimSpace(command)
    IN  /\ c \notin dangerousCommands
        /\ \A pattern \in dangerousPatterns : ~Contains(c, pattern)
        /\ ~(Contains(c, "&&") /\ Contains(c, "rm"))
        /\ ~(Contains(c, ";") /\ Contains(c, "rm"))

ValidateCommandAndOnly(command) ==
    LET c == TrimSpace(ToLower(command))
    IN  /\ c \notin dangerousCommands
        /\ \A pattern \in dangerousPatterns : ~Contains(c, pattern)
        /\ ~(Contains(c, "&&") /\ Contains(c, "rm"))

ValidateCommandStateful(command) ==
    LET c == TrimSpace(ToLower(command))
    IN  /\ rateLimits = << >>
        /\ c \notin dangerousCommands
        /\ \A pattern \in dangerousPatterns : ~Contains(c, pattern)
        /\ ~(Contains(c, "&&") /\ Contains(c, "rm"))
        /\ ~(Contains(c, ";") /\ Contains(c, "rm"))

ValidateCommand(command) ==
    LET c == TrimSpace(ToLower(command))
    IN  /\ c \notin dangerousCommands
        /\ \A pattern \in dangerousPatterns : ~Contains(c, pattern)
        /\ ~(Contains(c, "&&") /\ Contains(c, "rm"))
        /\ ~(Contains(c, ";") /\ Contains(c, "rm"))

blockedPaths ==
    {"/etc/shadow", "/etc/passwd", "/etc/sudoers", "/root/.ssh", "/home/*/.ssh",
     "/var/log/auth.log", "/etc/ssh/ssh_host_rsa_key", "/etc/ssl/private",
     "/proc/kcore", "/dev/mem", "/dev/kmem"}

blockedPatterns ==
    {".ssh/id_rsa", ".ssh/id_ed25519", ".ssh/id_ecdsa", "private_key",
     "*.key", "*.pem", "*.p12", "*.pfx"}

ValidateFilePathNoTrim(path) ==
    /\ path \notin blockedPaths
    /\ \A pattern \in blockedPatterns : ~Contains(path, pattern)
    /\ ~(Contains(path, "../") \/ Contains(path, "..\\"))

ValidateFilePathLeadingOnly(path) ==
    LET p == TrimSpace(path)
    IN  /\ p \notin blockedPaths
        /\ \A pattern \in blockedPatterns : ~Contains(p, pattern)
        /\ ~(HasPrefix(p, "../") \/ HasPrefix(p, "..\\"))

ValidateFilePath(path) ==
    LET p == TrimSpace(path)
    IN  /\ p \notin blockedPaths
        /\ \A pattern \in blockedPatterns : ~Contains(p, pattern)
        /\ ~(Contains(p, "../") \/ Contains(p, "..\\"))

\* ------------------------------------------------------ paths (Go: path/filepath)
IsAbs(path) == HasPrefix(path, "/")

\* strings.Split(path, "/")
RECURSIVE SplitSlash(_)
SplitSlash(path) ==
    LET sl == {i \in 1..Len(path) : Char(path, i) = "/"}
    IN  IF sl = {} THEN <<path>>
        ELSE LET k == CHOOSE i \in sl : \A j \in sl : i <= j
             IN  <<SubSeq(path, 1, k - 1)>> \o SplitSlash(SubSeq(path, k + 1, Len(path)))

\* filepath.Clean of a rooted path: "" and "." elements are dropped, ".."
\* removes the element before it and is dropped at the root.
RECURSIVE cleanRooted(_, _)
cleanRooted(elems, stack) ==
    IF elems = << >> THEN stack
    ELSE LET e == Head(elems)
         IN  IF e = "" \/ e = "." THEN cleanRooted(Tail(elems), stack)
             ELSE IF e = ".."
             THEN cleanRooted(Tail(elems),
                              IF stack = << >> THEN stack
                              ELSE SubSeq(stack, 1, Len(stack) - 1))
             ELSE cleanRooted(Tail(elems), Append(stack, e))

RECURSIVE joinSlash(_)
joinSlash(elems) ==
    IF elems = << >> THEN "" ELSE "/" \o Head(elems) \o joinSlash(Tail(elems))

Clean(path) ==
    LET st == cleanRooted(SplitSlash(path), << >>)
    IN  IF st = << >> THEN "/" ELSE joinSlash(st)

\* filepath.Join(dir, elem) with dir absolute, as every CurrentPath is.
Join(dir, elem) == Clean(dir \o "/" \o elem)

\* The directories of the host's file system that the model is explored with.
ExistingDirs == {"/tmp", "/srv"}

\* InfoManager.ValidateDirectory: os.Stat succeeds and the path is a directory.
ValidateDirectory(path) == Clean(path) \in ExistingDirs

\* ------------------------------------------------------------ inputs
MessageTexts ==
    {"/pwd", "/cd a", "/cd /srv", "/cd ../srv", "/exec", "/exec ls -la",
     "/exec  RM -RF /tmp", "/cat /etc/shadow", "/download ../../etc/passwd"}

CallbackData == {"files", "bogus"}

\* The switch of handleMessage: the first case whose prefix the text has.
routes ==
    <<"/start", "/help", "/status", "/info", "/resources", "/processes",
      "/services", "/ls", "/pwd", "/cd", "/cat", "/download", "/exec", "/kill",
      "/logs", "/admin">>

Route(text) ==
    LET hit == {i \in 1..Len(routes) : HasPrefix(text, routes[i])}
    IN  IF hit = {} THEN "default"
        ELSE routes[CHOOSE i \in hit : \A j \in hit : i <= j]

\* What the handlers compute from a message text alone, tabulated once per
\* text: strings.Fields(text), the case of the switch, and the verdict of
\* ValidateCommand on strings.TrimPrefix(text, "/exec ").
parsed ==
    [text \in MessageTexts \cup {""} |->
        [parts |-> Fields(text),
         route |-> Route(text),
         cmdText |-> TrimPrefix(text, "/exec "),
         cmdOK |-> ValidateCommand(TrimPrefix(text, "/exec "))]]

\* ---------------------------------------------------------------- Bot
\* One entry of trace: the function called and its argument (for
\* getOrCreateSession: the CurrentPath of the session it returned).
Call(op, arg) == [op |-> op, arg |-> arg]

getOrCreateSessionNoTimeout(ss, userID, username, t) ==
    IF userID \notin DOMAIN ss
    THEN Put(ss, userID, [UserID |-> userID, Username |-> username,
                          StartTime |-> t, LastCommand |-> t,
                          CurrentPath |-> config.WorkingDir, IsAdmin |-> FALSE])
    ELSE Put(ss, userID, [ss[userID] EXCEPT !.LastCommand = t])

getOrCreateSessionAtTimeout(ss, userID, username, t) ==
    IF \/ userID \notin DOMAIN ss
       \/ t - ss[userID].LastCommand >= config.SessionTimeout
    THEN Put(ss, userID, [UserID |-> userID, Username |-> username,
                          StartTime |-> t, LastCommand |-> t,
                          CurrentPath |-> config.WorkingDir, IsAdmin |-> FALSE])
    ELSE Put(ss, userID, [ss[userID] EXCEPT !.LastCommand = t])

getOrCreateSessionRename(ss, userID, username, t) ==
    IF \/ userID \notin DOMAIN ss
       \/ t - ss[userID].LastCommand > config.SessionTimeout
    THEN Put(ss, userID, [UserID |-> userID, Username |-> username,
                          StartTime |-> t, LastCommand |-> t,
                          CurrentPath |-> config.WorkingDir, IsAdmin |-> FALSE])
    ELSE Put(ss, userID, [ss[userID] EXCEPT !.LastCommand = t, !.Username = username])

getOrCreateSession(ss, userID, username, t) ==
    IF \/ userID \notin DOMAIN ss
       \/ t - ss[userID].LastCommand > config.SessionTimeout
    THEN Put(ss, userID, [UserID |-> userID, Username |-> username,
                          StartTime |-> t, LastCommand |-> t,
                          CurrentPath |-> config.WorkingDir, IsAdmin |-> FALSE])
    ELSE Put(ss, userID, [ss[userID] EXCEPT !.LastCommand = t])

\* Each handler: the sessions map it leaves and the calls it makes.
handleChangeDirectory(ss, userID, text) ==
    LET parts == parsed[text].parts
        cur == ss[userID].CurrentPath
        newPath == IF IsAbs(parts[2]) THEN parts[2] ELSE Join(cur, parts[2])
    IN  IF Len(parts) < 2 THEN [sessions |-> ss, calls |-> << >>]
        ELSE IF ~ValidateDirectory(newPath)
        THEN [sessions |-> ss, calls |-> <<Call("ValidateDirectory", newPath)>>]
        ELSE [sessions |-> Put(ss, userID, [ss[userID] EXCEPT !.CurrentPath = newPath]),
              calls |-> <<Call("ValidateDirectory", newPath)>>]

handleExecCommandUnchecked(ss, userID, text) ==
    LET parts == parsed[text].parts
        cmdText == parsed[text].cmdText
    IN  IF Len(parts) < 2 THEN [sessions |-> ss, calls |-> << >>]
        ELSE [sessions |-> ss,
              calls |-> <<Call("ValidateCommand", cmdText),
                          Call("ExecuteCommand", cmdText)>>]

handleExecCommand(ss, userID, text) ==
    LET parts == parsed[text].parts
        cmdText == parsed[text].cmdText
    IN  IF Len(parts) < 2 THEN [sessions |-> ss, calls |-> << >>]
        ELSE IF ~parsed[text].cmdOK
        THEN [sessions |-> ss, calls |-> <<Call("ValidateCommand", cmdText)>>]
        ELSE [sessions |-> ss,
              calls |-> <<Call("ValidateCommand", cmdText),
                          Call("ExecuteCommand", cmdText)>>]

handleCatFile(ss, text) ==
    LET parts == parsed[text].parts
    IN  IF Len(parts) < 2 THEN [sessions |-> ss, calls |-> << >>]
        ELSE [sessions |-> ss, calls |-> <<Call("ReadFile", parts[2])>>]

\* fileOk: os.Stat found the path and it is not a directory.
handleDownload(ss, text, fileOk) ==
    LET parts == parsed[text].parts
    IN  IF Len(parts) < 2 THEN [sessions |-> ss, calls |-> << >>]
        ELSE IF ~fileOk
        THEN [sessions |-> ss, calls |-> <<Call("Stat", parts[2])>>]
        ELSE [sessions |-> ss,
              calls |-> <<Call("Stat", parts[2]), Call("sendDocument", parts[2])>>]

\* handleMessage after its getOrCreateSession call: the document check and
\* the switch over the command prefixes.
dispatchMessage(s1, upd) ==
    LET route == parsed[upd.text].route
    IN  IF upd.document THEN [sessions |-> s1, calls |-> <<Call("handleFileUpload", "")>>]
        ELSE IF route = "/cd" THEN handleChangeDirectory(s1, upd.userID, upd.text)
        ELSE IF route = "/exec" THEN handleExecCommand(s1, upd.userID, upd.text)
        ELSE IF route = "/cat" THEN handleCatFile(s1, upd.text)
        ELSE IF route = "/download" THEN handleDownload(s1, upd.text, upd.fileOk)
        ELSE [sessions |-> s1, calls |-> <<Call("handler", route)>>]

handleMessage(ss, upd, t) ==
    LET s1 == getOrCreateSession(ss, upd.userID, upd.username, t)
        first == <<Call("getOrCreateSession", s1[upd.userID].CurrentPath)>>
        h == dispatchMessage(s1, upd)
    IN  [sessions |-> h.sessions, calls |-> first \o h.calls]

callbacks ==
    {"system_info", "resources", "processes", "services", "files", "logs",
     "admin", "help"}

\* handleCallbackQuery after its getOrCreateSession call.
dispatchCallback(upd) ==
    IF upd.text \in callbacks THEN <<Call("handler", upd.text)>> ELSE << >>

handleCallbackQuery(ss, upd, t) ==
    LET s1 == getOrCreateSession(ss, upd.userID, upd.username, t)
    IN  [sessions |-> s1,
         calls |-> <<Call("getOrCreateSession", s1[upd.userID].CurrentPath)>> \o
                   dispatchCallback(upd)]

\* ----------------------------------------------------------- updates
Usernames == {"ann"}

\* fileOk: os.Stat finds the requested file and it is not a directory.
Updates ==
    [kind : {"message"}, userID : UserIDs, username : Usernames,
     text : MessageTexts, document : {FALSE}, fileOk : {TRUE}]
    \cup [kind : {"message"}, userID : UserIDs, username : Usernames,
          text : {"/download ../../etc/passwd"}, document : {FALSE}, fileOk : {FALSE}]
    \cup [kind : {"message"}, userID : UserIDs, username : Usernames,
          text : {""}, document : {TRUE}, fileOk : {TRUE}]
    \cup [kind : {"callback"}, userID : UserIDs, username : Usernames,
          text : CallbackData, document : {FALSE}, fileOk : {TRUE}]
    \cup [kind : {"none"}, userID : {1}, username : {"ann"}, text : {""},
          document : {FALSE}, fileOk : {TRUE}]

\* The configurations the model is explored with; durations in clock units.
Configs ==
    {[AllowedUsers |-> <<2, 1>>, RateLimitWindow |-> 2, RateLimitCommands |-> 2,
      SessionTimeout |-> 1, WorkingDir |-> "/tmp",
      MonitoringInterval |-> 1, AlertCooldown |-> 2, CPUAlertThreshold |-> 80,
      MemoryAlertThreshold |-> 85, DiskAlertThreshold |-> 90],
     [AllowedUsers |-> <<1>>, RateLimitWindow |-> 1, RateLimitCommands |-> 1,
      SessionTimeout |-> 2, WorkingDir |-> "/tmp",
      MonitoringInterval |-> 1, AlertCooldown |-> 1, CPUAlertThreshold |-> 80,
      MemoryAlertThreshold |-> 85, DiskAlertThreshold |-> 90]}

NoCall == [op |-> "", user |-> 0, ok |-> FALSE, arg |-> ""]

Workers == 1..NumWorkers

Idle == [pc |-> "idle", user |-> 0, t |-> 0, seen |-> [exists |-> FALSE]]

Kinds == {"cpu", "memory", "disk", "load"}

NoData == [CPUUsage |-> 0, MemoryUsage |-> 0, DiskUsage |-> 0, LoadAverage |-> << >>]

NoProbe == [op |-> "", arg |-> "", ok |-> FALSE, empty |-> TRUE]

NoHist == [u \in UserIDs |-> [first |-> -1, start |-> -1, n |-> 0]]

rlVars == <<mu, calls, admitted>>

NoUpdate ==
    [kind |-> "none", userID |-> 1, username |-> "ann", text |-> "",
     document |-> FALSE, fileOk |-> TRUE]

sessVars == <<bmu, hpc>>

\* The goroutines that take MonitoringManager.mu besides the workers
\* 1..NumWorkers: the engine and the caller of GetAlertHistory.
EngId == -1

QryId == -2

lockVars == <<mmu, eng, qry, sm>>

monVars == <<isRunning, lastAlerts, mon, ctxDone, ticker, cb, cpuLog, further>>

vars == <<config, now, rateLimits, sessions, ret, trace, hist, rlVars, monVars, probe, burst, sessVars, lockVars>>

\* time.Now() moves on between any two steps.
Tick ==
    /\ now < MaxTime
    /\ ticker.due < 0 \/ now < ticker.due
    /\ now' = now + 1
    /\ UNCHANGED <<config, rateLimits, sessions, ret, trace, hist, rlVars, monVars, probe, burst, sessVars, lockVars>>

\* ---------------------------------------------------- Bot.handleUpdate
\* The two gates of handleUpdate, in the order of the code: the outcome, the
\* rate-limit map left behind and the calls evaluated.
admissionRateFirst(rl, userID, t) ==
    LET r == CheckRateLimit(rl, userID, t)
    IN  IF ~r.ok
        THEN [outcome |-> "RateLimited", rateLimits |-> r.rateLimits,
              calls |-> <<Call("CheckRateLimit", "")>>]
        ELSE IF ~IsAuthorized(userID)
        THEN [outcome |-> "Unauthorized", rateLimits |-> r.rateLimits,
              calls |-> <<Call("CheckRateLimit", ""), Call("IsAuthorized", "")>>]
        ELSE [outcome |-> "Handled", rateLimits |-> r.rateLimits,
              calls |-> <<Call("CheckRateLimit", ""), Call("IsAuthorized", "")>>]

admission(rl, userID, t) ==
    LET r == CheckRateLimit(rl, userID, t)
    IN  IF ~IsAuthorized(userID)
        THEN [outcome |-> "Unauthorized", rateLimits |-> rl,
              calls |-> <<Call("IsAuthorized", "")>>]
        ELSE IF ~r.ok
        THEN [outcome |-> "RateLimited", rateLimits |-> r.rateLimits,
              calls |-> <<Call("IsAuthorized", ""), Call("CheckRateLimit", "")>>]
        ELSE [outcome |-> "Handled", rateLimits |-> r.rateLimits,
              calls |-> <<Call("IsAuthorized", ""), Call("CheckRateLimit", "")>>]

handleUpdateSessionOnReject(upd) ==
    LET a == admission(rateLimits, upd.userID, now)
        h == IF upd.kind = "message" THEN handleMessage(sessions, upd, now)
             ELSE handleCallbackQuery(sessions, upd, now)
        out(arg) == [op |-> "handleUpdate", user |-> upd.userID,
                     ok |-> (arg = "Handled"), arg |-> arg]
    IN  /\ IF upd.kind = "none"
           THEN /\ trace' = << >>
                /\ ret' = out("Ignored")
                /\ UNCHANGED <<rateLimits, sessions>>
           ELSE IF a.outcome = "Unauthorized"
           THEN /\ trace' = a.calls
                /\ ret' = out(a.outcome)
                /\ rateLimits' = a.rateLimits
                /\ UNCHANGED sessions
           ELSE IF a.outcome = "RateLimited"
           THEN /\ trace' = a.calls
                /\ ret' = out(a.outcome)
                /\ rateLimits' = a.rateLimits
                /\ sessions' = getOrCreateSession(sessions, upd.userID, upd.username, now)
           ELSE /\ trace' = a.calls \o h.calls
                /\ ret' = out("Handled")
                /\ rateLimits' = a.rateLimits
                /\ sessions' = h.sessions
        /\ UNCHANGED <<config, now, hist, rlVars, monVars, probe, burst, sessVars, lockVars>>

\* Updates are handled one at a time by the loop of Bot.Start.
handleUpdate(upd) ==
    LET a == admission(rateLimits, upd.userID, now)
        h == IF upd.kind = "message" THEN handleMessage(sessions, upd, now)
             ELSE handleCallbackQuery(sessions, upd, now)
        out(arg) == [op |-> "handleUpdate", user |-> upd.userID,
                     ok |-> (arg = "Handled"), arg |-> arg]
    IN  /\ IF upd.kind = "none"
           THEN /\ trace' = << >>
                /\ ret' = out("Ignored")
                /\ UNCHANGED <<rateLimits, sessions>>
           ELSE IF a.outcome # "Handled"
           THEN /\ trace' = a.calls
                /\ ret' = out(a.outcome)
                /\ rateLimits' = a.rateLimits
                /\ UNCHANGED sessions
           ELSE /\ trace' = a.calls \o h.calls
                /\ ret' = out("Handled")
                /\ rateLimits' = a.rateLimits
                /\ sessions' = h.sessions
        /\ UNCHANGED <<config, now, hist, rlVars, monVars, probe, burst, sessVars, lockVars>>

Boot ==
    /\ now = 0
    /\ rateLimits = << >>
    /\ sessions = << >>
    /\ ret = NoCall
    /\ trace = << >>
    /\ hist = NoHist
    /\ mu = 0
    /\ calls = [w \in Workers |-> Idle]
    /\ admitted = [u \in UserIDs |-> [start |-> -1, n |-> 0]]
    /\ isRunning = FALSE
    /\ lastAlerts = << >>
    /\ mon = [pc |-> "off", kind |-> "", data |-> NoData, err |-> FALSE, load |-> 0,
              sent |-> FALSE]
    /\ ctxDone = FALSE
    /\ ticker = [due |-> -1, c |-> FALSE]
    /\ cb = [k \in Kinds |-> -1]
    /\ cpuLog = << >>
    /\ further = 0
    /\ probe = NoProbe
    /\ burst = << >>
    /\ bmu = 0
    /\ hpc = [pc |-> "idle", upd |-> NoUpdate]
    /\ mmu = [w |-> 0, r |-> {}]
    /\ eng = [pc |-> "idle", kind |-> "", seen |-> << >>]
    /\ qry = [pc |-> "idle", ref |-> "", map |-> << >>]
    /\ sm = [w \in Workers |-> [pc |-> "idle", done |-> FALSE]]

Init ==
    /\ config \in Configs
    /\ Boot

Next ==
    \/ Tick
    \/ \E upd \in Updates : handleUpdate(upd)

Spec == Init /\ [][Next]_vars

\* ------------------------------------------- AuthManager, called directly
\* The exported methods of AuthManager called one at a time, in any order
\* and by any identity.  hist follows the data model's definition of a
\* window from the call times alone: a call starts a window when the
\* identity has none or the window's start is more than RateLimitWindow ago.
AuthCallers == {1, 2}

CallIsAuthorized(userID) ==
    /\ ret' = [op |-> "IsAuthorized", user |-> userID, ok |-> IsAuthorized(userID),
               arg |-> ""]
    /\ UNCHANGED <<config, now, rateLimits, sessions, trace, hist, rlVars, monVars, probe, burst, sessVars, lockVars>>

CallCheckRateLimit(userID) ==
    LET r == CheckRateLimit(rateLimits, userID, now)
        h == hist[userID]
        opens == h.start < 0 \/ now - h.start > config.RateLimitWindow
    IN  /\ opens \/ h.n < MaxCalls
        /\ rateLimits' = r.rateLimits
        /\ ret' = [op |-> "CheckRateLimit", user |-> userID, ok |-> r.ok, arg |-> ""]
        /\ hist' = [hist EXCEPT ![userID] =
                       [first |-> IF h.first < 0 THEN now ELSE h.first,
                        start |-> IF opens THEN now ELSE h.start,
                        n |-> IF opens THEN 1 ELSE h.n + 1]]
        /\ UNCHANGED <<config, now, sessions, trace, rlVars, monVars, probe, burst, sessVars, lockVars>>

CallClearRateLimit(userID) ==
    /\ rateLimits' = ClearRateLimit(rateLimits, userID)
    /\ ret' = [op |-> "ClearRateLimit", user |-> userID, ok |-> TRUE, arg |-> ""]
    /\ hist' = [hist EXCEPT ![userID] = [first |-> @.first, start |-> -1, n |-> 0]]
    /\ UNCHANGED <<config, now, sessions, trace, rlVars, monVars, probe, burst, sessVars, lockVars>>

\* The texts ValidateCommand and ValidateFilePath are called with, and
\* their verdicts, tabulated once per text.
CommandTexts ==
    {"rm -rf /", "rm -rf /home/user/tmp", "echo hi && rm file.txt", "ls -la",
     "echo hi && ls", " MKFS ", "fdisk -l", "chown -R root /srv",
     "mkfs", "ls; rm x", "ls ; pwd"}

PathTexts ==
    {"/etc/shadow", "../../etc/passwd", "/home/user/notes.txt", " /dev/mem ",
     "/srv/a/../b", "docs\\..\\x", "/root/.ssh/id_rsa/../x",
     "/srv/tls/server.key"}

commandVerdicts == [command \in CommandTexts |-> ValidateCommand(command)]

pathVerdicts == [path \in PathTexts |-> ValidateFilePath(path)]

\* probe keeps one of the calls made so far, any of them, to compare later
\* calls on the same text with, and whether the rate-limit map was empty then.
Kept(call, keep) ==
    IF keep /\ probe = NoProbe
    THEN [op |-> call.op, arg |-> call.arg, ok |-> call.ok, empty |-> rateLimits = << >>]
    ELSE probe

CallValidateCommand(command, keep) ==
    LET call == [op |-> "ValidateCommand", user |-> 0,
                 ok |-> commandVerdicts[command], arg |-> command]
    IN  /\ ret' = call
        /\ probe' = Kept(call, keep)
        /\ UNCHANGED <<config, now, rateLimits, sessions, trace, hist, rlVars, monVars,
                       burst, sessVars, lockVars>>

CallValidateFilePath(path, keep) ==
    LET call == [op |-> "ValidateFilePath", user |-> 0,
                 ok |-> pathVerdicts[path], arg |-> path]
    IN  /\ ret' = call
        /\ probe' = Kept(call, keep)
        /\ UNCHANGED <<config, now, rateLimits, sessions, trace, hist, rlVars, monVars,
                       burst, sessVars, lockVars>>

NextAuth ==
    \/ Tick
    \/ \E u \in UserIDs : CallIsAuthorized(u)
    \/ \E u \in AuthCallers : CallCheckRateLimit(u)
    \/ \E u \in AuthCallers : CallClearRateLimit(u)

SpecAuth == Init /\ [][NextAuth]_vars

\* ValidateCommand and ValidateFilePath called at any time, between rate-limit
\* calls of one identity.
ClassCallers == {1}

NextClass ==
    \/ Tick
    \/ \E u \in ClassCallers : CallCheckRateLimit(u)
    \/ \E u \in ClassCallers : CallClearRateLimit(u)
    \/ \E command \in CommandTexts, keep \in BOOLEAN : CallValidateCommand(command, keep)
    \/ \E path \in PathTexts, keep \in BOOLEAN : CallValidateFilePath(path, keep)

SpecClass == Init /\ [][NextClass]_vars

\* --------------------------------- CheckRateLimit over several windows
\* One identity calls CheckRateLimit again and again while the clock runs
\* through several windows.  burst keeps the times of its latest admitted
\* calls, the oldest first, as many as three full windows admit.
BurstConfigs ==
    {[AllowedUsers |-> <<1>>, RateLimitWindow |-> 3, RateLimitCommands |-> 2,
      SessionTimeout |-> 1, WorkingDir |-> "/tmp",
      MonitoringInterval |-> 1, AlertCooldown |-> 2, CPUAlertThreshold |-> 80,
      MemoryAlertThreshold |-> 85, DiskAlertThreshold |-> 90],
     [AllowedUsers |-> <<1>>, RateLimitWindow |-> 2, RateLimitCommands |-> 1,
      SessionTimeout |-> 1, WorkingDir |-> "/tmp",
      MonitoringInterval |-> 1, AlertCooldown |-> 2, CPUAlertThreshold |-> 80,
      MemoryAlertThreshold |-> 85, DiskAlertThreshold |-> 90]}

BurstCallers == {1}

BurstKeep == 3 * config.RateLimitCommands

InitBurst ==
    /\ config \in BurstConfigs
    /\ Boot

TickBurst ==
    /\ now < MaxBurstTime
    /\ now' = now + 1
    /\ UNCHANGED <<config, rateLimits, sessions, ret, trace, hist, rlVars, monVars, probe,
                   burst, sessVars, lockVars>>

BurstCheckRateLimit(userID) ==
    LET r == CheckRateLimit(rateLimits, userID, now)
        log == burst \o <<now>>
    IN  /\ rateLimits' = r.rateLimits
        /\ ret' = [op |-> "CheckRateLimit", user |-> userID, ok |-> r.ok, arg |-> ""]
        /\ burst' = IF ~r.ok THEN burst
                    ELSE IF Len(log) > BurstKeep THEN Tail(log)
                    ELSE log
        /\ UNCHANGED <<config, now, sessions, trace, hist, rlVars, monVars, probe,
                       sessVars, lockVars>>

NextBurst ==
    \/ TickBurst
    \/ \E u \in BurstCallers : BurstCheckRateLimit(u)

SpecBurst == InitBurst /\ [][NextBurst]_vars

\* ------------------------------------- handleUpdate, statement by statement
\* The loop of Bot.Start takes one update at a time through handleUpdate:
\* the two gates, then getOrCreateSession, which takes b.mu, reads and writes
\* the session map and releases b.mu on return, then the handler chosen by
\* the switch, which runs after getOrCreateSession has returned.
SessCallers == {1, 2}

SessUsernames == {"ann", "bea"}

SessUpdates ==
    [kind : {"message"}, userID : SessCallers, username : SessUsernames,
     text : {"/cd a", "/cd /srv"}, document : {FALSE}, fileOk : {TRUE}]
    \cup [kind : {"callback"}, userID : SessCallers, username : SessUsernames,
          text : {"files"}, document : {FALSE}, fileOk : {TRUE}]

sessOthers == <<config, now, hist, rlVars, monVars, probe, burst, lockVars>>

\* handleUpdate up to the call of handleMessage or handleCallbackQuery.
Receive(upd) ==
    LET a == admission(rateLimits, upd.userID, now)
    IN  /\ hpc.pc = "idle"
        /\ rateLimits' = a.rateLimits
        /\ trace' = a.calls
        /\ IF a.outcome = "Handled"
           THEN /\ hpc' = [pc |-> "lock", upd |-> upd]
                /\ ret' = NoCall
           ELSE /\ ret' = [op |-> "handleUpdate", user |-> upd.userID, ok |-> FALSE,
                           arg |-> a.outcome]
                /\ UNCHANGED hpc
        /\ UNCHANGED <<sessions, bmu, sessOthers>>

\* getOrCreateSession: b.mu.Lock()
LockSessions ==
    /\ hpc.pc = "lock" /\ bmu = 0
    /\ bmu' = 1
    /\ hpc' = [hpc EXCEPT !.pc = "session"]
    /\ UNCHANGED <<rateLimits, sessions, ret, trace, sessOthers>>

\* getOrCreateSession: the body, between Lock and the deferred Unlock.
WriteSession ==
    LET upd == hpc.upd
        s1 == getOrCreateSession(sessions, upd.userID, upd.username, now)
    IN  /\ hpc.pc = "session"
        /\ sessions' = s1
        /\ trace' = trace \o <<Call("getOrCreateSession", s1[upd.userID].CurrentPath)>>
        /\ hpc' = [hpc EXCEPT !.pc = "unlock"]
        /\ UNCHANGED <<rateLimits, ret, bmu, sessOthers>>

\* getOrCreateSession: the deferred b.mu.Unlock(), on return.
UnlockSessions ==
    /\ hpc.pc = "unlock"
    /\ bmu' = 0
    /\ hpc' = [hpc EXCEPT !.pc = "dispatch"]
    /\ UNCHANGED <<rateLimits, sessions, ret, trace, sessOthers>>

\* The rest of handleMessage or handleCallbackQuery, on the session
\* getOrCreateSession returned.
Dispatch ==
    LET upd == hpc.upd
        h == IF upd.kind = "message" THEN dispatchMessage(sessions, upd)
             ELSE [sessions |-> sessions, calls |-> dispatchCallback(upd)]
    IN  /\ hpc.pc = "dispatch"
        /\ sessions' = h.sessions
        /\ trace' = trace \o h.calls
        /\ ret' = [op |-> "handleUpdate", user |-> upd.userID, ok |-> TRUE,
                   arg |-> "Handled"]
        /\ hpc' = [pc |-> "idle", upd |-> NoUpdate]
        /\ UNCHANGED <<rateLimits, bmu, sessOthers>>

NextSess ==
    \/ Tick
    \/ \E upd \in SessUpdates : Receive(upd)
    \/ LockSessions
    \/ WriteSession
    \/ UnlockSessions
    \/ Dispatch

SpecSess == Init /\ [][NextSess]_vars

\* ------------------------------------ CheckRateLimit, called concurrently
\* Each worker is a goroutine inside one CheckRateLimit call.  The call takes
\* am.mu, reads the clock and the identity's entry, decides and writes, and
\* releases am.mu on return.  admitted counts, per identity, the calls that
\* returned true under the WindowStart their entry carries.
rlOthers == <<config, now, sessions, ret, trace, hist, monVars, probe, burst, sessVars, lockVars>>

\* A caller enters CheckRateLimit(userID).
Begin(w, userID) ==
    /\ calls[w].pc = "idle"
    /\ calls' = [calls EXCEPT ![w] = [Idle EXCEPT !.pc = "lock", !.user = userID]]
    /\ UNCHANGED <<mu, admitted, rateLimits, rlOthers>>

LockUnguarded(w) ==
    /\ calls[w].pc = "lock"
    /\ mu' = w
    /\ calls' = [calls EXCEPT ![w].pc = "read"]
    /\ UNCHANGED <<admitted, rateLimits, rlOthers>>

\* am.mu.Lock(): blocks while another call holds the mutex.
Lock(w) ==
    /\ calls[w].pc = "lock"
    /\ mu = 0
    /\ mu' = w
    /\ calls' = [calls EXCEPT ![w].pc = "read"]
    /\ UNCHANGED <<admitted, rateLimits, rlOthers>>

\* now := time.Now(); rl, exists := am.rateLimits[userID]
Read(w) ==
    LET u == calls[w].user
    IN  /\ calls[w].pc = "read"
        /\ calls' = [calls EXCEPT ![w].pc = "write", ![w].t = now,
                        ![w].seen = IF u \in DOMAIN rateLimits
                                    THEN [exists |-> TRUE, rl |-> rateLimits[u]]
                                    ELSE [exists |-> FALSE]]
        /\ UNCHANGED <<mu, admitted, rateLimits, rlOthers>>

\* The branches of CheckRateLimit on what was read, and their writes.
Write(w) ==
    LET u == calls[w].user
        seen == calls[w].seen
        view == IF seen.exists THEN Put(rateLimits, u, seen.rl) ELSE Drop(rateLimits, u)
        r == CheckRateLimit(view, u, calls[w].t)
        e == r.rateLimits[u]
    IN  /\ calls[w].pc = "write"
        /\ rateLimits' = r.rateLimits
        /\ admitted' = IF ~r.ok THEN admitted
                       ELSE [admitted EXCEPT ![u] =
                               IF @.start = e.WindowStart
                               THEN [start |-> @.start, n |-> @.n + 1]
                               ELSE [start |-> e.WindowStart, n |-> 1]]
        /\ calls' = [calls EXCEPT ![w].pc = "unlock"]
        /\ UNCHANGED <<mu, rlOthers>>

\* defer am.mu.Unlock(), on return.
Unlock(w) ==
    /\ calls[w].pc = "unlock"
    /\ mu' = 0
    /\ calls' = [calls EXCEPT ![w] = Idle]
    /\ UNCHANGED <<admitted, rateLimits, rlOthers>>

NextRL ==
    \/ Tick
    \/ \E w \in Workers, u \in AuthCallers : Begin(w, u)
    \/ \E w \in Workers : Lock(w)
    \/ \E w \in Workers : Read(w)
    \/ \E w \in Workers : Write(w)
    \/ \E w \in Workers : Unlock(w)

SpecRL == Init /\ [][NextRL]_vars

\* ------------------------------------------------- the monitoring engine
\* One goroutine runs StartMonitoring.  Sampling and the alert callback
\* block for as long as they take, so the clock may move between any two of
\* its steps.  The ticker puts a tick into ticker.C, which holds one, every
\* MonitoringInterval.  collectMonitoringData never assigns LoadAverage.
Usages == {50, 95}

Samples ==
    [CPUUsage : Usages, MemoryUsage : Usages, DiskUsage : Usages,
     LoadAverage : {<< >>}]

\* The host's 1-minute load average.
Loads == {1, 50}

monOthers == <<config, now, rateLimits, sessions, ret, trace, hist, rlVars, probe, burst, sessVars, lockVars>>

nextKind(k) ==
    CASE k = "cpu" -> "memory"
      [] k = "memory" -> "disk"
      [] k = "disk" -> "load"
      [] OTHER -> "select"

\* The sample once alert type k's block is over: checkSystemHealth does not
\* read that block's metric again.
spent(k, data) ==
    CASE k = "cpu" -> [data EXCEPT !.CPUUsage = 0]
      [] k = "memory" -> [data EXCEPT !.MemoryUsage = 0]
      [] k = "disk" -> [data EXCEPT !.DiskUsage = 0]
      [] OTHER -> NoData

\* The goroutine moves on to the next block of checkSystemHealth, or returns
\* from it to the select; the sample is a local of checkSystemHealth.  load
\* is the host's 1-minute load average as the goroutine reaches the "load"
\* block; nothing has sampled it.
goto(k, load) ==
    [pc |-> nextKind(k), kind |-> "",
     data |-> spent(k, mon.data),
     err |-> FALSE,
     load |-> IF nextKind(k) = "load" THEN load ELSE 0,
     sent |-> FALSE]

\* The threshold comparisons of checkSystemHealth.
breach(k, data) ==
    CASE k = "cpu" -> data.CPUUsage > config.CPUAlertThreshold
      [] k = "memory" -> data.MemoryUsage > config.MemoryAlertThreshold
      [] k = "disk" -> data.DiskUsage > config.DiskAlertThreshold
      [] OTHER -> Len(data.LoadAverage) > 0 /\ data.LoadAverage[1] > 10

shouldSendAlertAtCooldown(alertType) ==
    \/ alertType \notin DOMAIN lastAlerts
    \/ now - lastAlerts[alertType] >= config.AlertCooldown

shouldSendAlertAnyKind(alertType) ==
    \A k \in DOMAIN lastAlerts : now - lastAlerts[k] > config.AlertCooldown

shouldSendAlert(alertType) ==
    \/ alertType \notin DOMAIN lastAlerts
    \/ now - lastAlerts[alertType] > config.AlertCooldown

StartMonitoring ==
    /\ mon.pc = "off" /\ ~isRunning
    /\ isRunning' = TRUE
    /\ ticker' = [due |-> now + config.MonitoringInterval, c |-> FALSE]
    /\ mon' = [mon EXCEPT !.pc = "select"]
    /\ UNCHANGED <<lastAlerts, ctxDone, cb, cpuLog, further, monOthers>>

\* The runtime delivers a tick when it is due; a tick nobody has received
\* yet is not queued twice.
TickerFire ==
    /\ ticker.due = now
    /\ ticker' = [due |-> now + config.MonitoringInterval, c |-> TRUE]
    /\ UNCHANGED <<isRunning, lastAlerts, mon, ctxDone, cb, cpuLog, further, monOthers>>

\* The owner of the context cancels it.
Cancel ==
    /\ isRunning /\ ~ctxDone
    /\ ctxDone' = TRUE
    /\ UNCHANGED <<isRunning, lastAlerts, mon, ticker, cb, cpuLog, further, monOthers>>

\* select, case <-ticker.C: any ready case may be the one chosen.
SelectTick ==
    /\ mon.pc = "select" /\ ticker.c
    /\ ticker' = [ticker EXCEPT !.c = FALSE]
    /\ mon' = [mon EXCEPT !.pc = "collect", !.err = FALSE]
    /\ further' = IF ctxDone THEN further + 1 ELSE further
    /\ UNCHANGED <<isRunning, lastAlerts, ctxDone, cb, cpuLog, monOthers>>

SelectDoneStillRunning ==
    /\ mon.pc = "select" /\ ctxDone
    /\ mon' = [mon EXCEPT !.pc = "done"]
    /\ ticker' = [ticker EXCEPT !.due = -1]
    /\ UNCHANGED <<isRunning, lastAlerts, ctxDone, cb, cpuLog, further, monOthers>>

\* select, case <-ctx.Done(): isRunning = false, return, ticker.Stop().
SelectDone ==
    /\ mon.pc = "select" /\ ctxDone
    /\ isRunning' = FALSE
    /\ mon' = [mon EXCEPT !.pc = "done"]
    /\ ticker' = [ticker EXCEPT !.due = -1]
    /\ UNCHANGED <<lastAlerts, ctxDone, cb, cpuLog, further, monOthers>>

collectMonitoringDataFatal(data, failed) ==
    /\ mon.pc = "collect"
    /\ mon' = IF failed THEN [mon EXCEPT !.pc = "done", !.err = TRUE]
              ELSE [mon EXCEPT !.pc = "cpu", !.data = data]
    /\ isRunning' = ~failed
    /\ UNCHANGED <<lastAlerts, ctxDone, ticker, cb, cpuLog, further, monOthers>>

\* collectMonitoringData returns a sample, or an error that ends the check;
\* mon.err is the error it returned, until the next health check begins.
collectMonitoringData(data, failed) ==
    /\ mon.pc = "collect"
    /\ mon' = IF failed THEN [mon EXCEPT !.pc = "select", !.err = TRUE]
              ELSE [mon EXCEPT !.pc = "cpu", !.data = data]
    /\ UNCHANGED <<isRunning, lastAlerts, ctxDone, ticker, cb, cpuLog, further, monOthers>>

checkSystemHealthSilent(k, load) ==
    LET b == breach(k, mon.data)
        entry == [at |-> now, breach |-> b, fired |-> FALSE, prior |-> cb["cpu"] >= 0]
    IN  /\ mon.pc = k
        /\ mon' = IF b /\ shouldSendAlert(k)
                  THEN [mon EXCEPT !.pc = "stamp", !.kind = k]
                  ELSE goto(k, load)
        /\ cpuLog' = IF k # "cpu" THEN cpuLog
                     ELSE IF Len(cpuLog) = 2 THEN <<cpuLog[2], entry>>
                     ELSE Append(cpuLog, entry)
        /\ UNCHANGED <<isRunning, lastAlerts, ctxDone, ticker, cb, further, monOthers>>

checkSystemHealthClearsOnRecovery(k, load) ==
    LET b == breach(k, mon.data)
        entry == [at |-> now, breach |-> b, fired |-> FALSE, prior |-> cb["cpu"] >= 0]
    IN  /\ mon.pc = k
        /\ mon' = IF b /\ shouldSendAlert(k)
                  THEN [mon EXCEPT !.pc = "callback", !.kind = k]
                  ELSE goto(k, load)
        /\ lastAlerts' = IF b THEN lastAlerts ELSE Drop(lastAlerts, k)
        /\ cpuLog' = IF k # "cpu" THEN cpuLog
                     ELSE IF Len(cpuLog) = 2 THEN <<cpuLog[2], entry>>
                     ELSE Append(cpuLog, entry)
        /\ UNCHANGED <<isRunning, ctxDone, ticker, cb, further, monOthers>>

\* One alert type's block of checkSystemHealth, up to the callback.
checkSystemHealth(k, load) ==
    LET b == breach(k, mon.data)
        entry == [at |-> now, breach |-> b, fired |-> FALSE, prior |-> cb["cpu"] >= 0]
    IN  /\ mon.pc = k
        /\ mon' = IF b /\ shouldSendAlert(k)
                  THEN [mon EXCEPT !.pc = "callback", !.kind = k]
                  ELSE goto(k, load)
        /\ cpuLog' = IF k # "cpu" THEN cpuLog
                     ELSE IF Len(cpuLog) = 2 THEN <<cpuLog[2], entry>>
                     ELSE Append(cpuLog, entry)
        /\ UNCHANGED <<isRunning, lastAlerts, ctxDone, ticker, cb, further, monOthers>>

\* alertCallback(alertType, message), which is Bot.sendAlert: it returns
\* nothing, whether its b.api.Send calls succeeded (sent) or not.
alertCallback(sent) ==
    /\ mon.pc = "callback"
    /\ cb' = [cb EXCEPT ![mon.kind] = now]
    /\ cpuLog' = IF mon.kind = "cpu"
                 THEN [cpuLog EXCEPT ![Len(cpuLog)].fired = TRUE]
                 ELSE cpuLog
    /\ mon' = [mon EXCEPT !.pc = "stamp", !.sent = sent]
    /\ UNCHANGED <<isRunning, lastAlerts, ctxDone, ticker, further, monOthers>>

updateLastAlertFresh(load) ==
    /\ mon.pc = "stamp"
    /\ lastAlerts' = [k \in {mon.kind} |-> now]
    /\ mon' = goto(mon.kind, load)
    /\ UNCHANGED <<isRunning, ctxDone, ticker, cb, cpuLog, further, monOthers>>

updateLastAlertIfSent(load) ==
    /\ mon.pc = "stamp"
    /\ lastAlerts' = IF mon.sent THEN Put(lastAlerts, mon.kind, now) ELSE lastAlerts
    /\ mon' = goto(mon.kind, load)
    /\ UNCHANGED <<isRunning, ctxDone, ticker, cb, cpuLog, further, monOthers>>

updateLastAlert(load) ==
    /\ mon.pc = "stamp"
    /\ lastAlerts' = Put(lastAlerts, mon.kind, now)
    /\ mon' = goto(mon.kind, load)
    /\ UNCHANGED <<isRunning, ctxDone, ticker, cb, cpuLog, further, monOthers>>

NextMon ==
    \/ Tick
    \/ StartMonitoring
    \/ TickerFire
    \/ Cancel
    \/ SelectTick
    \/ SelectDone
    \/ \E data \in Samples, failed \in BOOLEAN : collectMonitoringData(data, failed)
    \/ \E k \in Kinds, load \in Loads : checkSystemHealth(k, load)
    \/ \E sent \in BOOLEAN : alertCallback(sent)
    \/ \E load \in Loads : updateLastAlert(load)

\* The engine is explored under the configuration whose AlertCooldown is
\* short enough for an alert to be sent a second time before the clock ends.
MonConfigs == {c \in Configs : c.AlertCooldown = 1}

InitMon ==
    /\ config \in MonConfigs
    /\ Boot

SpecMon == InitMon /\ [][NextMon]_vars

\* ------------------------------- the update loop and the engine together
\* Bot.Start starts the monitoring goroutine and then handles updates, so
\* the session map and the cooldown map change side by side.  One identity
\* sends messages; every sample finds all three metrics high, and the
\* context is not cancelled.
CoreUpdates ==
    {upd \in Updates :
        /\ upd.kind = "message" /\ upd.userID = 1 /\ ~upd.document
        /\ upd.text \in {"/pwd", "/cd /srv"}}

CoreSamples == {data \in Samples : data.CPUUsage = 95 /\ data.DiskUsage = 95}

NextCore ==
    \/ Tick
    \/ \E upd \in CoreUpdates : handleUpdate(upd)
    \/ StartMonitoring
    \/ TickerFire
    \/ SelectTick
    \/ \E data \in CoreSamples : collectMonitoringData(data, FALSE)
    \/ \E k \in Kinds : checkSystemHealth(k, 1)
    \/ alertCallback(TRUE)
    \/ updateLastAlert(1)

SpecCore == InitMon /\ [][NextCore]_vars

\* --------------------------- the cooldown map under MonitoringManager.mu
\* The engine goes through shouldSendAlert and updateLastAlert statement by
\* statement for an alert type whose metric is above its threshold, while
\* another goroutine calls GetAlertHistory and then does as it likes with
\* the map it got.  mm.mu is a sync.RWMutex: Lock waits for the writer and
\* the readers to leave, RLock for the writer.
HistKinds == {"cpu", "memory"}

histOthers ==
    <<config, rateLimits, sessions, ret, trace, hist, rlVars, isRunning, mon, ctxDone,
      ticker, cb, cpuLog, further, probe, burst, sessVars, sm>>

\* checkSystemHealth reaches shouldSendAlert(k).
EngBegin(k) ==
    /\ eng.pc = "idle"
    /\ eng' = [pc |-> "rlock", kind |-> k, seen |-> << >>]
    /\ UNCHANGED <<now, lastAlerts, mmu, qry, histOthers>>

\* shouldSendAlert: mm.mu.RLock()
EngRLock ==
    /\ eng.pc = "rlock" /\ mmu.w = 0
    /\ mmu' = [mmu EXCEPT !.r = @ \cup {EngId}]
    /\ eng' = [eng EXCEPT !.pc = "read"]
    /\ UNCHANGED <<now, lastAlerts, qry, histOthers>>

\* shouldSendAlert: lastAlert, exists := mm.lastAlerts[alertType]
EngRead ==
    /\ eng.pc = "read"
    /\ eng' = [eng EXCEPT !.pc = "runlock", !.seen = Entry(lastAlerts, eng.kind)]
    /\ UNCHANGED <<now, lastAlerts, mmu, qry, histOthers>>

\* shouldSendAlert: mm.mu.RUnlock()
EngRUnlock ==
    /\ eng.pc = "runlock"
    /\ mmu' = [mmu EXCEPT !.r = @ \ {EngId}]
    /\ eng' = [eng EXCEPT !.pc = "decide"]
    /\ UNCHANGED <<now, lastAlerts, qry, histOthers>>

\* shouldSendAlert returns; on true the callback is invoked.
EngDecide ==
    /\ eng.pc = "decide"
    /\ eng' = IF eng.seen = << >> \/ now - eng.seen[1] > config.AlertCooldown
              THEN [eng EXCEPT !.pc = "wlock"]
              ELSE [pc |-> "idle", kind |-> "", seen |-> << >>]
    /\ UNCHANGED <<now, lastAlerts, mmu, qry, histOthers>>

\* updateLastAlert: mm.mu.Lock()
EngLock ==
    /\ eng.pc = "wlock" /\ mmu.w = 0 /\ mmu.r = {}
    /\ mmu' = [mmu EXCEPT !.w = EngId]
    /\ eng' = [eng EXCEPT !.pc = "write"]
    /\ UNCHANGED <<now, lastAlerts, qry, histOthers>>

\* updateLastAlert: mm.lastAlerts[alertType] = time.Now()
EngWrite ==
    /\ eng.pc = "write"
    /\ lastAlerts' = Put(lastAlerts, eng.kind, now)
    /\ eng' = [eng EXCEPT !.pc = "unlock"]
    /\ UNCHANGED <<now, mmu, qry, histOthers>>

\* updateLastAlert: mm.mu.Unlock()
EngUnlock ==
    /\ eng.pc = "unlock"
    /\ mmu' = [mmu EXCEPT !.w = 0]
    /\ eng' = [pc |-> "idle", kind |-> "", seen |-> << >>]
    /\ UNCHANGED <<now, lastAlerts, qry, histOthers>>

\* GetAlertHistory: mm.mu.RLock()
QryRLock ==
    /\ qry.pc = "idle" /\ mmu.w = 0
    /\ mmu' = [mmu EXCEPT !.r = @ \cup {QryId}]
    /\ qry' = [qry EXCEPT !.pc = "copy"]
    /\ UNCHANGED <<now, lastAlerts, eng, histOthers>>

QryCopyAlias ==
    /\ qry.pc = "copy"
    /\ qry' = [pc |-> "return", ref |-> "engine", map |-> << >>]
    /\ UNCHANGED <<now, lastAlerts, mmu, eng, histOthers>>

\* GetAlertHistory: history := make(map), filled from mm.lastAlerts entry by
\* entry.  ref tells whose map the caller gets: a map of its own.
QryCopy ==
    /\ qry.pc = "copy"
    /\ qry' = [pc |-> "return", ref |-> "own", map |-> lastAlerts]
    /\ UNCHANGED <<now, lastAlerts, mmu, eng, histOthers>>

\* GetAlertHistory: the deferred mm.mu.RUnlock(), on return.
QryRUnlock ==
    /\ qry.pc = "return"
    /\ mmu' = [mmu EXCEPT !.r = @ \ {QryId}]
    /\ qry' = [qry EXCEPT !.pc = "held"]
    /\ UNCHANGED <<now, lastAlerts, eng, histOthers>>

\* The caller deletes an entry of the map it was given.
CallerDelete(k) ==
    /\ qry.pc = "held"
    /\ IF qry.ref = "own"
       THEN /\ k \in DOMAIN qry.map
            /\ qry' = [qry EXCEPT !.map = Drop(qry.map, k)]
            /\ UNCHANGED lastAlerts
       ELSE /\ k \in DOMAIN lastAlerts
            /\ lastAlerts' = Drop(lastAlerts, k)
            /\ UNCHANGED qry
    /\ UNCHANGED <<now, mmu, eng, histOthers>>

\* The caller lets go of the map.
CallerDone ==
    /\ qry.pc = "held"
    /\ qry' = [pc |-> "idle", ref |-> "", map |-> << >>]
    /\ UNCHANGED <<now, lastAlerts, mmu, eng, histOthers>>

NextHist ==
    \/ Tick
    \/ \E k \in HistKinds : EngBegin(k)
    \/ EngRLock
    \/ EngRead
    \/ EngRUnlock
    \/ EngDecide
    \/ EngLock
    \/ EngWrite
    \/ EngUnlock
    \/ QryRLock
    \/ QryCopy
    \/ QryRUnlock
    \/ \E k \in HistKinds : CallerDelete(k)
    \/ CallerDone

SpecHist == InitMon /\ [][NextHist]_vars

\* ------------------------------------ StartMonitoring, called concurrently
\* Each worker is a goroutine that calls StartMonitoring with a context of
\* its own, statement by statement: the flag is tested and set under mm.mu,
\* the loop receives ticks and runs a health check for each until it sees
\* its context cancelled, and then clears the flag under mm.mu and returns.
startOthers ==
    <<config, now, rateLimits, sessions, ret, trace, hist, rlVars, lastAlerts, mon,
      ctxDone, ticker, cb, cpuLog, further, probe, burst, sessVars, eng, qry>>

\* go mm.StartMonitoring(ctx, alertCallback)
SmCall(w) ==
    /\ sm[w].pc = "idle"
    /\ sm' = [sm EXCEPT ![w] = [pc |-> "lock", done |-> FALSE]]
    /\ UNCHANGED <<isRunning, mmu, startOthers>>

\* mm.mu.Lock(), at the start and before clearing the flag
SmLock(w) ==
    /\ sm[w].pc \in {"lock", "dlock"}
    /\ mmu.w = 0 /\ mmu.r = {}
    /\ mmu' = [mmu EXCEPT !.w = w]
    /\ sm' = [sm EXCEPT ![w].pc = IF @ = "lock" THEN "test" ELSE "clear"]
    /\ UNCHANGED <<isRunning, startOthers>>

SmTestUnguarded(w) ==
    /\ sm[w].pc = "test"
    /\ isRunning' = TRUE
    /\ sm' = [sm EXCEPT ![w].pc = "set"]
    /\ UNCHANGED <<mmu, startOthers>>

\* if mm.isRunning { ... return }; mm.isRunning = true
SmTest(w) ==
    /\ sm[w].pc = "test"
    /\ isRunning' = TRUE
    /\ sm' = [sm EXCEPT ![w].pc = IF isRunning THEN "refuse" ELSE "set"]
    /\ UNCHANGED <<mmu, startOthers>>

\* mm.mu.Unlock(): the refused call returns, the other enters the loop, the
\* one that cleared the flag returns.
SmUnlock(w) ==
    /\ sm[w].pc \in {"refuse", "set", "unlock"}
    /\ mmu' = [mmu EXCEPT !.w = 0]
    /\ sm' = [sm EXCEPT ![w].pc = IF @ = "set" THEN "select" ELSE "idle"]
    /\ UNCHANGED <<isRunning, startOthers>>

\* The owner of the worker's context cancels it.
SmCancel(w) ==
    /\ sm[w].pc # "idle" /\ ~sm[w].done
    /\ sm' = [sm EXCEPT ![w].done = TRUE]
    /\ UNCHANGED <<isRunning, mmu, startOthers>>

\* select, case <-ticker.C: mm.checkSystemHealth(alertCallback)
SmTick(w) ==
    /\ sm[w].pc = "select"
    /\ sm' = [sm EXCEPT ![w].pc = "check"]
    /\ UNCHANGED <<isRunning, mmu, startOthers>>

\* checkSystemHealth returns.
SmChecked(w) ==
    /\ sm[w].pc = "check"
    /\ sm' = [sm EXCEPT ![w].pc = "select"]
    /\ UNCHANGED <<isRunning, mmu, startOthers>>

\* select, case <-ctx.Done()
SmDone(w) ==
    /\ sm[w].pc = "select" /\ sm[w].done
    /\ sm' = [sm EXCEPT ![w].pc = "dlock"]
    /\ UNCHANGED <<isRunning, mmu, startOthers>>

\* mm.isRunning = false
SmClear(w) ==
    /\ sm[w].pc = "clear"
    /\ isRunning' = FALSE
    /\ sm' = [sm EXCEPT ![w].pc = "unlock"]
    /\ UNCHANGED <<mmu, startOthers>>

NextStart ==
    \E w \in Workers :
        \/ SmCall(w)
        \/ SmLock(w)
        \/ SmTest(w)
        \/ SmUnlock(w)
        \/ SmCancel(w)
        \/ SmTick(w)
        \/ SmChecked(w)
        \/ SmDone(w)
        \/ SmClear(w)

SpecStart == InitMon /\ [][NextStart]_vars

\* ------------------------------------------ LoadConfig and Config.Validate
\* What yaml.Unmarshal leaves in the Config: a field the file does not give
\* is zero or empty.
RawConfigs ==
    [BotToken : {"", "token"}, AllowedUsers : {<< >>, <<1>>},
     AdminPassword : {"", "secret"}, SessionTimeout : {0, 30}, MaxFileSize : {0, 512},
     RateLimitWindow : {-1, 0, 2}, RateLimitCommands : {-1, 0, 2},
     LogLevel : {"", "verbose"}, Name : {""}, Timezone : {""}, WorkingDir : {"", "tmp"},
     CPUAlertThreshold : {0}, MemoryAlertThreshold : {0}, DiskAlertThreshold : {0},
     MonitoringInterval : {0}, AlertCooldown : {0}]

setDefaults(c) ==
    [c EXCEPT
        !.SessionTimeout = IF @ = 0 THEN 3600 ELSE @,
        !.MaxFileSize = IF @ = 0 THEN 52428800 ELSE @,
        !.RateLimitWindow = IF @ = 0 THEN 60 ELSE @,
        !.RateLimitCommands = IF @ = 0 THEN 10 ELSE @,
        !.LogLevel = IF @ = "" THEN "info" ELSE @,
        !.Name = IF @ = "" THEN "Server" ELSE @,
        !.Timezone = IF @ = "" THEN "UTC" ELSE @,
        !.WorkingDir = IF @ = "" THEN "/tmp" ELSE @,
        !.CPUAlertThreshold = IF @ = 0 THEN 85 ELSE @,
        !.MemoryAlertThreshold = IF @ = 0 THEN 90 ELSE @,
        !.DiskAlertThreshold = IF @ = 0 THEN 95 ELSE @,
        !.MonitoringInterval = IF @ = 0 THEN 300 ELSE @,
        !.AlertCooldown = IF @ = 0 THEN 1800 ELSE @]

\* Validate returns nil.
Validate(c) ==
    /\ c.BotToken # ""
    /\ Len(c.AllowedUsers) # 0
    /\ c.AdminPassword # ""
    /\ ~(c.SessionTimeout < 60)
    /\ ~(c.MaxFileSize < 1024)
    /\ (c.WorkingDir # "" => IsAbs(c.WorkingDir))
    /\ c.LogLevel \in {"debug", "info", "warn", "error"}

\* The configurations the program starts with: LoadConfig, then Validate.
LoadedConfigs == {c \in {setDefaults(raw) : raw \in RawConfigs} : Validate(c)}

InitConfig ==
    /\ config \in LoadedConfigs
    /\ Boot

NextConfig ==
    \/ Tick
    \/ \E u \in ClassCallers : CallCheckRateLimit(u)

SpecConfig == InitConfig /\ [][NextConfig]_vars

\* ------------------------------------------------------------ claims
AllowSet == {config.AllowedUsers[i] : i \in 1..Len(config.AllowedUsers)}

\* C1: an update whose sender is outside the allow-list is rejected as
\* Unauthorized with IsAuthorized the only call evaluated (no CheckRateLimit,
\* getOrCreateSession, ValidateCommand or handler), and neither the
\* rate-limit map nor the session map ever holds an identity outside the
\* allow-list.
C1_UnauthorizedShortCircuit ==
    /\ (ret.op = "handleUpdate" /\ ret.arg # "Ignored" /\ ret.user \notin AllowSet)
           => (ret.arg = "Unauthorized" /\ trace = <<Call("IsAuthorized", "")>>)
    /\ DOMAIN rateLimits \subseteq AllowSet
    /\ DOMAIN sessions \subseteq AllowSet

C1_Witness ==
    /\ ret.arg = "Unauthorized"
    /\ ret.user \notin AllowSet
    /\ DOMAIN rateLimits # {}
    /\ DOMAIN sessions # {}

\* C6: the command executor runs only on a command text that ValidateCommand
\* has just accepted: every ExecuteCommand in the calls of an update directly
\* follows a ValidateCommand of the same text, and that text is one
\* ValidateCommand accepts; a rejected text is never executed.
C6_ExecOnlyAfterValidate ==
    \A i \in DOMAIN trace :
        trace[i].op = "ExecuteCommand" =>
            /\ i > 1
            /\ trace[i - 1] = Call("ValidateCommand", trace[i].arg)
            /\ ValidateCommand(trace[i].arg)

C6_Witness ==
    \E i \in DOMAIN trace :
        trace[i].op = "ExecuteCommand" /\ trace[i].arg = "ls -la"

\* C7 (as claimed): every file access of /cat and /download (os.ReadFile,
\* os.Stat, sendDocument) is preceded, in the same update, by ValidateFilePath
\* on the same path, and happens only on a path ValidateFilePath accepts.
C7_PathValidatedBeforeAccess ==
    \A i \in DOMAIN trace :
        trace[i].op \in {"ReadFile", "Stat", "sendDocument"} =>
            /\ \E j \in 1..(i - 1) : trace[j] = Call("ValidateFilePath", trace[i].arg)
            /\ ValidateFilePath(trace[i].arg)

\* C9: an admitted update of an identity that has no session, or whose
\* session was last active more than SessionTimeout ago, gets from
\* getOrCreateSession a new session: CurrentPath is the configured working
\* directory (whatever an earlier /cd had set), StartTime and LastCommand
\* are the time of the call.
C9_FreshSessionOnTimeout ==
    [][\A u \in UserIDs :
          ( /\ now' = now
            /\ ret'.op = "handleUpdate" /\ ret'.arg = "Handled" /\ ret'.user = u
            /\ \/ u \notin DOMAIN sessions
               \/ now - sessions[u].LastCommand > config.SessionTimeout )
          => /\ trace'[3] = Call("getOrCreateSession", config.WorkingDir)
             /\ sessions'[u].StartTime = now
             /\ sessions'[u].LastCommand = now]_vars

\* A session recreated after a timeout: it started after the identity's
\* rate-limit window did, and the session returned had the default path.
C9_Witness ==
    /\ ret.op = "handleUpdate" /\ ret.arg = "Handled"
    /\ ret.user \in DOMAIN sessions
    /\ sessions[ret.user].StartTime > rateLimits[ret.user].WindowStart
    /\ sessions[ret.user].StartTime = now
    /\ trace[3] = Call("getOrCreateSession", config.WorkingDir)

\* C2: IsAuthorized(identity) is true exactly for the members of the
\* allow-list, and a call of it leaves the rate-limit map, the session map
\* and the alert-cooldown map as they were.
C2_IsAuthorizedPure ==
    /\ [](ret.op = "IsAuthorized" => (ret.ok <=> ret.user \in AllowSet))
    /\ [][ret'.op = "IsAuthorized" => UNCHANGED <<rateLimits, sessions, lastAlerts>>]_vars

C2_Witness ==
    /\ ret.op = "IsAuthorized" /\ ~ret.ok
    /\ ret.user \notin AllowSet
    /\ DOMAIN rateLimits # {}

\* C3: counting an identity's CheckRateLimit calls from the call that starts
\* its window (N = 1), the Nth call of the window is admitted exactly when
\* N <= RateLimitCommands.
C3_NthCallInWindow ==
    ret.op = "CheckRateLimit" =>
        (ret.ok <=> hist[ret.user].n <= config.RateLimitCommands)

\* A call rejected at the last instant of its window.
C3_Witness ==
    /\ ret.op = "CheckRateLimit" /\ ~ret.ok
    /\ hist[ret.user].n = config.RateLimitCommands + 1
    /\ now = hist[ret.user].start + config.RateLimitWindow

\* A CheckRateLimit(u) step: the only steps that add a call to u's history.
Called(u) == hist'[u] # hist[u] /\ hist'[u].n >= 1

\* C4 (as claimed): a CheckRateLimit(u) call made more than RateLimitWindow
\* after any earlier CheckRateLimit(u) call is admitted, whatever calls came
\* in between.
C4_AdmitAfterAnyEarlierCall ==
    [][\A u \in AuthCallers :
          (Called(u) /\ hist[u].first >= 0
             /\ now - hist[u].first > config.RateLimitWindow)
          => ret'.ok]_vars

\* C4 (amended): a CheckRateLimit(u) call made more than RateLimitWindow
\* after the call that started u's window, every call in between having been
\* made within the window, is admitted and starts a new window with a count
\* of 1, however many of the calls in between were admitted or rejected.
C4_AdmitAfterWindowStart ==
    [][\A u \in AuthCallers :
          (Called(u) /\ hist[u].start >= 0
             /\ now - hist[u].start > config.RateLimitWindow)
          => /\ ret'.ok
             /\ rateLimits'[u] = [Commands |-> 1, WindowStart |-> now]]_vars

C4_Witness ==
    /\ ret.op = "CheckRateLimit" /\ ret.ok
    /\ hist[ret.user].first >= 0
    /\ now - hist[ret.user].first > config.RateLimitWindow
    /\ hist[ret.user].start = now /\ hist[ret.user].n = 1
    /\ rateLimits[ret.user] = [Commands |-> 1, WindowStart |-> now]

\* C5: under every interleaving of concurrent CheckRateLimit calls, for the
\* same identity and for different ones, the calls admitted for an identity
\* under one WindowStart never exceed RateLimitCommands, and the identity's
\* counter equals the number of calls admitted in that window.
C5_AtomicCheckRateLimit ==
    \A u \in AuthCallers :
        /\ admitted[u].n <= config.RateLimitCommands
        /\ u \in DOMAIN rateLimits =>
              /\ rateLimits[u].WindowStart = admitted[u].start
              /\ rateLimits[u].Commands = admitted[u].n

\* Two calls for one identity contend: one holds the mutex, about to decide,
\* the other waits for it, and the window is already full.
C5_Witness ==
    \E w1, w2 \in Workers :
        /\ w1 # w2
        /\ calls[w1].pc = "write" /\ calls[w2].pc = "lock"
        /\ calls[w1].user = calls[w2].user
        /\ admitted[calls[w1].user].n = config.RateLimitCommands

\* C8: when two consecutive health checks both find the CPU above its
\* threshold less than AlertCooldown apart and no "cpu" alert was sent before
\* the first, the callback is invoked for the first and not for the second;
\* and whenever the callback is invoked for an alert type it was invoked for
\* before, more than AlertCooldown has passed since that invocation.
C8_CooldownGatesCallback ==
    /\ []((/\ Len(cpuLog) = 2
           /\ cpuLog[1].breach /\ cpuLog[2].breach
           /\ ~cpuLog[1].prior
           /\ cpuLog[2].at - cpuLog[1].at < config.AlertCooldown)
          => (cpuLog[1].fired /\ ~cpuLog[2].fired))
    /\ [][(mon.pc = "callback" /\ mon'.pc = "stamp" /\ cb[mon.kind] >= 0)
          => now - cb[mon.kind] > config.AlertCooldown]_vars

\* The second of two such health checks has passed its "cpu" block.
C8_Witness ==
    /\ Len(cpuLog) = 2
    /\ cpuLog[1].breach /\ cpuLog[2].breach
    /\ ~cpuLog[1].prior
    /\ cpuLog[2].at - cpuLog[1].at < config.AlertCooldown
    /\ cpuLog[1].fired
    /\ mon.pc = "memory"

\* C10: once the context is cancelled the engine begins at most one further
\* health check before it leaves the loop.
C10_AtMostOneFurtherTick == further <= 1

\* C11: IsRunning is false before StartMonitoring has taken the flag, true
\* from then until the loop observes the cancellation, false afterwards and
\* for good; health checks run only while it is true.
C11_RunState ==
    /\ [](isRunning <=> mon.pc \notin {"off", "done"})
    /\ [][mon.pc = "done" => mon'.pc = "done"]_vars
    /\ [][isRunning' # isRunning =>
            \/ mon.pc = "off" /\ isRunning'
            \/ mon.pc = "select" /\ ctxDone /\ ~isRunning']_vars

\* The engine has stopped after a health check that sent a "cpu" alert.
C11_Witness ==
    /\ mon.pc = "done" /\ ~isRunning /\ ctxDone
    /\ cb["cpu"] >= 0

\* C12: a health check whose sampling fails returns to the select without
\* invoking the alert callback or writing a cooldown entry, with the engine
\* still running and its ticker still armed, and a tick that follows starts
\* a health check that samples again.
C12_SamplingFailureSkipsTick ==
    /\ [][(mon.pc = "collect" /\ mon'.pc # "collect" /\ mon'.err) =>
            /\ mon'.pc = "select"
            /\ UNCHANGED <<lastAlerts, cb, isRunning, ticker>>
            /\ isRunning /\ ticker.due >= 0]_vars
    /\ []((mon.pc = "select" /\ mon.err /\ ticker.c) => ENABLED SelectTick)

\* A health check has failed to sample and the next tick is waiting.
C12_Witness ==
    /\ mon.pc = "select" /\ mon.err /\ ticker.c
    /\ isRunning /\ ~ctxDone

\* C13 (as claimed): a health check made while the host's 1-minute load
\* average is above 10, the "load" alert never sent or its cooldown over,
\* invokes the alert callback for "load".
C13_LoadAlertFires ==
    [][(mon.pc = "load" /\ mon'.pc # "load" /\ mon.load > 10 /\ shouldSendAlert("load"))
          => (mon'.pc = "callback" /\ mon'.kind = "load")]_vars

\* The rule set as documented: a command is unsafe when its trimmed,
\* lower-cased text is an entry of the exact blocklist, contains an entry of
\* the substring blocklist, or contains && or ; together with rm.
documentedUnsafe ==
    [command \in CommandTexts |->
        LET c == TrimSpace(ToLower(command))
        IN  \/ \E d \in dangerousCommands : c = d
            \/ \E d \in dangerousPatterns : Contains(c, d)
            \/ (Contains(c, "&&") \/ Contains(c, ";")) /\ Contains(c, "rm")]

trimmedPaths == [path \in PathTexts |-> TrimSpace(path)]

\* C15: ValidateFilePath rejects "/etc/shadow" and "../../etc/passwd",
\* accepts "/home/user/notes.txt", and rejects every path whose trimmed text
\* is an entry of the exact blocklist.
C15_ValidateFilePathExamples ==
    ret.op = "ValidateFilePath" =>
        /\ ret.arg \in {"/etc/shadow", "../../etc/passwd"} => ~ret.ok
        /\ ret.arg = "/home/user/notes.txt" => ret.ok
        /\ trimmedPaths[ret.arg] \in blockedPaths => ~ret.ok

\* A blocklisted path given with spaces around it.
C15_Witness ==
    /\ ret.op = "ValidateFilePath"
    /\ ret.arg = " /dev/mem " /\ ~ret.ok

hasTraversal ==
    [path \in PathTexts |-> Contains(path, "../") \/ Contains(path, "..\\")]

\* C18: ValidateFilePath rejects every path that contains ../ or ..\,
\* wherever the sequence stands and whatever other rule matches.
C18_TraversalRejected ==
    (ret.op = "ValidateFilePath" /\ hasTraversal[ret.arg]) => ~ret.ok

\* A traversal inside a path no other rule matches.
C18_Witness ==
    /\ ret.op = "ValidateFilePath"
    /\ ret.arg = "/srv/a/../b" /\ ~ret.ok

\* C17: an update rejected by the rate limiter evaluates IsAuthorized and
\* CheckRateLimit and nothing else, and leaves the session map as it was: no
\* session is created and no LastCommand refreshed, so the identity's
\* session can be past its timeout while its updates are being rejected.
C17_RateLimitedIsTerminal ==
    [][(now' = now /\ ret'.op = "handleUpdate" /\ ret'.arg = "RateLimited")
          => /\ sessions' = sessions
             /\ trace' = <<Call("IsAuthorized", ""), Call("CheckRateLimit", "")>>]_vars

\* A rejected update of an identity whose session is past its timeout.
C17_Witness ==
    /\ ret.op = "handleUpdate" /\ ret.arg = "RateLimited"
    /\ ret.user \in DOMAIN sessions
    /\ now - sessions[ret.user].LastCommand > config.SessionTimeout

\* C19 (as claimed): an update whose /exec command ValidateCommand rejects
\* (ValidateCommand is the last call made, no ExecuteCommand follows) leaves
\* the session map as it was: no session created, no LastCommand refreshed.
C19_RejectedExecKeepsSessions ==
    [][(/\ now' = now /\ ret'.op = "handleUpdate" /\ ret'.arg = "Handled"
        /\ trace'[Len(trace')].op = "ValidateCommand")
          => sessions' = sessions]_vars

\* C20: a rejected CheckRateLimit call leaves the rate-limit map, and so the
\* identity's Commands and WindowStart, as they were.
C20_RejectedCallFrame ==
    [][\A u \in AuthCallers :
          (Called(u) /\ ret'.op = "CheckRateLimit" /\ ret'.user = u /\ ~ret'.ok)
          => rateLimits' = rateLimits]_vars

\* The second rejected call of a window, made after its start.
C20_Witness ==
    /\ ret.op = "CheckRateLimit" /\ ~ret.ok
    /\ hist[ret.user].n >= config.RateLimitCommands + 2
    /\ rateLimits[ret.user].Commands = config.RateLimitCommands
    /\ rateLimits[ret.user].WindowStart = hist[ret.user].start
    /\ now > hist[ret.user].start

\* C21: a CheckRateLimit call adds one to an identity's Commands only when
\* it is made no later than WindowStart + RateLimitWindow, and then leaves
\* WindowStart alone; a call made later than that sets WindowStart to now
\* and Commands to 1; and every stored entry has 1 <= Commands <=
\* RateLimitCommands.
C21_RateWindowInvariant ==
    /\ [](\A u \in DOMAIN rateLimits :
             /\ 1 <= rateLimits[u].Commands
             /\ rateLimits[u].Commands <= config.RateLimitCommands)
    /\ [][\A u \in DOMAIN rateLimits \cap DOMAIN rateLimits' :
             /\ rateLimits'[u].Commands > rateLimits[u].Commands
                   => /\ now - rateLimits[u].WindowStart <= config.RateLimitWindow
                      /\ rateLimits'[u].Commands = rateLimits[u].Commands + 1
                      /\ rateLimits'[u].WindowStart = rateLimits[u].WindowStart
             /\ (Called(u) /\ now - rateLimits[u].WindowStart > config.RateLimitWindow)
                   => rateLimits'[u] = [Commands |-> 1, WindowStart |-> now]]_vars

\* A window filled by a call made after its start.
C21_Witness ==
    /\ ret.op = "CheckRateLimit" /\ ret.ok
    /\ rateLimits[ret.user].Commands = config.RateLimitCommands
    /\ config.RateLimitCommands >= 2
    /\ rateLimits[ret.user].WindowStart < now

\* The latest n admitted calls lie in a time span shorter than d.
BurstWithin(n, d) == Len(burst) >= n /\ burst[Len(burst)] - burst[Len(burst) - n + 1] < d

\* C22 as stated: no time span shorter than twice RateLimitWindow holds more
\* than 2 x RateLimitCommands admitted calls of one identity.
C22_BurstAtMostTwiceMax ==
    ~BurstWithin(2 * config.RateLimitCommands + 1, 2 * config.RateLimitWindow)

\* C22: an identity has at most 3 x RateLimitCommands - 1 calls admitted in
\* any time span shorter than twice RateLimitWindow: the calls of a span
\* that short fall into three consecutive windows at most, and do not fill
\* all three.
C22_BurstBelowThriceMax ==
    ~BurstWithin(3 * config.RateLimitCommands, 2 * config.RateLimitWindow)

\* 3 x RateLimitCommands - 1 calls admitted in a span shorter than twice
\* RateLimitWindow, more than 2 x RateLimitCommands of them.
C22_Witness ==
    /\ config.RateLimitCommands >= 2
    /\ BurstWithin(3 * config.RateLimitCommands - 1, 2 * config.RateLimitWindow)

\* C23: an identity has at most 2 x RateLimitCommands calls admitted in any
\* time span of length at most RateLimitWindow.
C23_WindowSpanAtMostTwiceMax ==
    ~BurstWithin(2 * config.RateLimitCommands + 1, config.RateLimitWindow + 1)

\* A span of at most RateLimitWindow that overlaps two consecutive windows
\* and holds admitted calls of both, the later window full.
C23_Witness ==
    /\ config.RateLimitCommands >= 2
    /\ BurstWithin(2 * config.RateLimitCommands - 1, config.RateLimitWindow + 1)
    /\ 1 \in DOMAIN rateLimits
    /\ rateLimits[1].WindowStart
          > burst[Len(burst) - 2 * config.RateLimitCommands + 2]
    /\ rateLimits[1].Commands = config.RateLimitCommands

\* C24: a CheckRateLimit(u) or ClearRateLimit(u) call leaves the entry of
\* every other identity as it was: an entry is created, changed or removed
\* only by a call made for its own identity.
C24_PerIdentityIndependence ==
    [][\A v \in UserIDs :
          Entry(rateLimits', v) # Entry(rateLimits, v)
             => /\ ret'.op \in {"CheckRateLimit", "ClearRateLimit"}
                /\ ret'.user = v]_vars

\* A ClearRateLimit call for one identity made while another identity has
\* an entry, which is still there.
C24_Witness ==
    /\ ret.op = "ClearRateLimit"
    /\ ret.user \notin DOMAIN rateLimits
    /\ \E v \in DOMAIN rateLimits :
          /\ v # ret.user
          /\ hist[ret.user].first >= 0
          /\ rateLimits[v].Commands = config.RateLimitCommands

\* C25 as stated: ValidateCommand returns false for every text containing
\* "chown -R" in any letter case.
C25_RecursiveChownRejected ==
    (ret.op = "ValidateCommand" /\ Contains(ToLower(ret.arg), "chown -r")) => ~ret.ok

\* The text a command is classified by: lower-cased, without the white space
\* around it.  Two texts differ only in letter case or in leading and
\* trailing white space exactly when they have the same normal form.
normalForm == [command \in CommandTexts |-> TrimSpace(ToLower(command))]

\* C26: two ValidateCommand calls on texts that differ only in letter case
\* or in leading and trailing white space return the same.
C26_CaseAndSpaceInsensitive ==
    (/\ probe # NoProbe /\ probe.op = "ValidateCommand" /\ ret.op = "ValidateCommand"
     /\ normalForm[probe.arg] = normalForm[ret.arg])
        => ret.ok = probe.ok

\* A rejected call whose text differs in case and white space from the
\* text of an earlier rejected call.
C26_Witness ==
    /\ probe # NoProbe /\ probe.op = "ValidateCommand" /\ ret.op = "ValidateCommand"
    /\ probe.arg # ret.arg
    /\ normalForm[probe.arg] = normalForm[ret.arg]
    /\ ~ret.ok /\ ~probe.ok

IsLetter(c) == \E i \in 1..Len(Lowers) : Char(Lowers, i) = c \/ Char(Uppers, i) = c

\* rm stands in s as a word of its own, no letter before or after it.
HasTokenRm(s) ==
    \E i \in 1..(Len(s) - 1) :
        /\ SubSeq(s, i, i + 1) = "rm"
        /\ i = 1 \/ ~IsLetter(Char(s, i - 1))
        /\ i + 1 = Len(s) \/ ~IsLetter(Char(s, i + 2))

\* Per text: it chains commands with && or ;, it has the token rm, it
\* contains rm at all, it matches an entry of one of the two blocklists.
chained ==
    [command \in CommandTexts |->
        LET c == normalForm[command]
        IN  [op |-> Contains(c, "&&") \/ Contains(c, ";"),
             token |-> HasTokenRm(c),
             rm |-> Contains(c, "rm"),
             listed |-> \/ c \in dangerousCommands
                        \/ \E pattern \in dangerousPatterns : Contains(c, pattern)]]

\* C27: ValidateCommand rejects every text that has a chaining operator and
\* the token rm, also when the text matches no blocklist entry, and accepts
\* every text with a chaining operator that contains no rm and matches no
\* blocklist entry, "echo hi && ls" among them.
C27_CompoundHeuristic ==
    ret.op = "ValidateCommand" =>
        /\ (chained[ret.arg].op /\ chained[ret.arg].token) => ~ret.ok
        /\ (chained[ret.arg].op /\ ~chained[ret.arg].rm /\ ~chained[ret.arg].listed)
              => ret.ok
        /\ ret.arg = "echo hi && ls" => ret.ok

\* A text chained with ; that has the token rm and matches no blocklist
\* entry, rejected.
C27_Witness ==
    /\ ret.op = "ValidateCommand" /\ ~ret.ok
    /\ Contains(ret.arg, ";")
    /\ chained[ret.arg].token /\ ~chained[ret.arg].listed

\* The paths the documentation calls private-key files: those ending in
\* .key, .pem, .p12 or .pfx, or containing .ssh/id_rsa or private_key.
keyNamed ==
    [path \in PathTexts |->
        LET p == TrimSpace(path)
        IN  \/ \E ext \in {".key", ".pem", ".p12", ".pfx"} : HasSuffix(p, ext)
            \/ Contains(p, ".ssh/id_rsa")
            \/ Contains(p, "private_key")]

\* C28 as stated: ValidateFilePath returns false for every path that ends in
\* .key, .pem, .p12 or .pfx or contains .ssh/id_rsa or private_key.
C28_KeyFilesRejected ==
    (ret.op = "ValidateFilePath" /\ keyNamed[ret.arg]) => ~ret.ok

\* C29 as stated: every step that writes a field of a session, or adds a
\* session, is taken with b.mu held.
C29_SessionWritesUnderLock ==
    [][sessions' # sessions => bmu = 1]_vars

\* C30: getOrCreateSession called for an identity whose session exists and
\* was last active no more than SessionTimeout ago sets that session's
\* LastCommand to the time of the call, returns that session, and changes
\* nothing else: not its StartTime, CurrentPath, Username or IsAdmin, and
\* no session of another identity.
C30_RefreshOnlyLastCommand ==
    [][( /\ hpc.pc = "session" /\ hpc'.pc = "unlock"
         /\ hpc.upd.userID \in DOMAIN sessions
         /\ now - sessions[hpc.upd.userID].LastCommand <= config.SessionTimeout )
       => /\ sessions' = [sessions EXCEPT ![hpc.upd.userID].LastCommand = now]
          /\ trace'[Len(trace')] =
                Call("getOrCreateSession", sessions[hpc.upd.userID].CurrentPath)]_vars

\* A session refreshed some time after it began, for an update that names
\* its user differently, after a /cd had moved it, while another identity
\* has a session too.
C30_Witness ==
    /\ hpc.pc = "unlock"
    /\ hpc.upd.userID \in DOMAIN sessions
    /\ sessions[hpc.upd.userID].LastCommand = now
    /\ sessions[hpc.upd.userID].StartTime < now
    /\ sessions[hpc.upd.userID].Username # hpc.upd.username
    /\ sessions[hpc.upd.userID].CurrentPath # config.WorkingDir
    /\ \E v \in DOMAIN sessions : v # hpc.upd.userID

\* C31: both time limits are strict.  A session is replaced only by a
\* getOrCreateSession call made more than SessionTimeout after its
\* LastCommand, and a call made exactly SessionTimeout after it reuses the
\* session.  A rate-limit window is restarted only by a call made more than
\* RateLimitWindow after its WindowStart, and a call made exactly
\* RateLimitWindow after it is counted in the old window: admitted with the
\* count raised by one, or rejected when the window is full.
C31_StrictBoundaries ==
    [][\A u \in UserIDs :
          /\ (u \in DOMAIN sessions /\ sessions'[u].StartTime # sessions[u].StartTime)
                => now - sessions[u].LastCommand > config.SessionTimeout
          /\ ( /\ hpc.pc = "session" /\ hpc'.pc = "unlock" /\ hpc.upd.userID = u
               /\ u \in DOMAIN sessions
               /\ now - sessions[u].LastCommand = config.SessionTimeout )
                => sessions' = [sessions EXCEPT ![u].LastCommand = now]
          /\ (u \in DOMAIN rateLimits /\ rateLimits'[u].WindowStart # rateLimits[u].WindowStart)
                => now - rateLimits[u].WindowStart > config.RateLimitWindow
          /\ ( /\ hpc.pc = "idle" /\ now' = now /\ Len(trace') = 2
               /\ \/ (hpc'.pc = "lock" /\ hpc'.upd.userID = u)
                  \/ (hpc'.pc = "idle" /\ ret'.user = u)
               /\ u \in DOMAIN rateLimits
               /\ now - rateLimits[u].WindowStart = config.RateLimitWindow )
                => IF rateLimits[u].Commands >= config.RateLimitCommands
                   THEN /\ hpc'.pc = "idle" /\ ret'.arg = "RateLimited"
                        /\ rateLimits' = rateLimits
                   ELSE /\ hpc'.pc = "lock"
                        /\ rateLimits' =
                              [rateLimits EXCEPT ![u].Commands = @ + 1]]_vars

\* An update rejected exactly RateLimitWindow after the window began, of an
\* identity whose session was reused exactly SessionTimeout after it began.
C31_Witness ==
    /\ ret.op = "handleUpdate" /\ ret.arg = "RateLimited"
    /\ ret.user \in DOMAIN rateLimits /\ ret.user \in DOMAIN sessions
    /\ now = rateLimits[ret.user].WindowStart + config.RateLimitWindow
    /\ config.SessionTimeout = 1
    /\ sessions[ret.user].LastCommand = sessions[ret.user].StartTime + 1

\* The alert types checkSystemHealth has a sampled metric for.
Sampled == {"cpu", "memory", "disk"}

\* C32: in a health check, for cpu, memory and disk alike: when the sampled
\* value is above the threshold and the alert type has no lastAlerts entry
\* or its entry is more than AlertCooldown old, the callback is invoked for
\* it, once, and after the callback lastAlerts gets the time it then is; the
\* check then goes on to the next alert type.
C32_BreachFiresThenStamps ==
    /\ [][\A k \in Sampled :
             (mon.pc = k /\ mon'.pc # k /\ breach(k, mon.data) /\ shouldSendAlert(k))
                => /\ mon'.pc = "callback" /\ mon'.kind = k
                   /\ lastAlerts' = lastAlerts /\ cb' = cb]_vars
    /\ [][(mon.pc = "callback" /\ mon'.pc # "callback")
             => /\ mon'.pc = "stamp" /\ mon'.kind = mon.kind
                /\ cb' = [cb EXCEPT ![mon.kind] = now]
                /\ lastAlerts' = lastAlerts]_vars
    /\ [][(mon.pc = "stamp" /\ mon'.pc # "stamp")
             => /\ mon'.pc = nextKind(mon.kind)
                /\ lastAlerts' = Put(lastAlerts, mon.kind, now)
                /\ cb' = cb]_vars
    /\ [][(mon'.pc = "callback" /\ mon.pc # "callback") => mon.pc = mon'.kind]_vars

\* The memory alert stamped, later than its callback was invoked, and the
\* check gone on to the disk.
C32_Witness ==
    /\ mon.pc = "disk"
    /\ "memory" \in DOMAIN lastAlerts
    /\ lastAlerts["memory"] = now
    /\ cb["memory"] >= 0 /\ cb["memory"] < now

\* C33: a health check that finds a metric at or below its threshold invokes
\* no callback for that alert type and leaves lastAlerts as it was; and when
\* the health check before found the CPU at or below its threshold, a CPU
\* above it now, no more than AlertCooldown after the last "cpu" stamp, sends
\* no alert.
C33_RecoveryKeepsCooldown ==
    /\ [][\A k \in Sampled :
             (mon.pc = k /\ mon'.pc # k /\ ~breach(k, mon.data))
                => /\ mon'.pc = nextKind(k)
                   /\ lastAlerts' = lastAlerts /\ cb' = cb]_vars
    /\ [][( /\ mon.pc = "cpu" /\ mon'.pc # "cpu"
            /\ Len(cpuLog) >= 1 /\ ~cpuLog[Len(cpuLog)].breach
            /\ breach("cpu", mon.data)
            /\ "cpu" \in DOMAIN lastAlerts
            /\ now - lastAlerts["cpu"] <= config.AlertCooldown )
             => (mon'.pc = "memory" /\ lastAlerts' = lastAlerts)]_vars

\* A "cpu" alert was sent, the next health check found the CPU recovered,
\* and the one after found it high again inside the cooldown and kept quiet.
C33_Witness ==
    /\ mon.pc = "memory"
    /\ Len(cpuLog) = 2
    /\ ~cpuLog[1].breach /\ cpuLog[1].prior
    /\ cpuLog[2].breach /\ ~cpuLog[2].fired
    /\ "cpu" \in DOMAIN lastAlerts
    /\ lastAlerts["cpu"] <= cpuLog[1].at
    /\ cpuLog[2].at - lastAlerts["cpu"] <= config.AlertCooldown

\* C34: an alert type's lastAlerts entry is written only by the stamp of
\* that alert type, and whether a block of the health check sends its alert
\* depends on its own metric and its own entry alone, whatever the entries
\* of the other alert types are.
C34_KindsIndependent ==
    /\ [][\A k \in Kinds :
             Entry(lastAlerts', k) # Entry(lastAlerts, k)
                => (mon.pc = "stamp" /\ mon.kind = k)]_vars
    /\ [][\A k \in Kinds :
             (mon.pc = k /\ mon'.pc # k)
                => ((mon'.pc = "callback" /\ mon'.kind = k)
                       <=> /\ breach(k, mon.data)
                           /\ \/ k \notin DOMAIN lastAlerts
                              \/ now - lastAlerts[k] > config.AlertCooldown)]_vars

\* The memory alert is being sent in a health check that kept the "cpu"
\* alert back because of its cooldown.
C34_Witness ==
    /\ mon.pc = "callback" /\ mon.kind = "memory"
    /\ Len(cpuLog) >= 1
    /\ cpuLog[Len(cpuLog)].breach /\ ~cpuLog[Len(cpuLog)].fired
    /\ "cpu" \in DOMAIN lastAlerts
    /\ now - lastAlerts["cpu"] <= config.AlertCooldown

\* C35: once the callback has been invoked for an alert type, lastAlerts is
\* stamped for it whether the callback delivered the alert or not; the
\* health check then goes on to the next alert type without invoking the
\* callback for this one again, and no later step removes the stamp or sets
\* it back.
C35_StampWhateverDelivery ==
    /\ [][(mon.pc = "stamp" /\ mon'.pc # "stamp")
             => /\ lastAlerts' = Put(lastAlerts, mon.kind, now)
                /\ mon'.pc = nextKind(mon.kind)]_vars
    /\ [][(mon.pc = "callback" /\ mon'.pc # "callback") => mon'.pc = "stamp"]_vars
    /\ [][(mon'.pc = "callback" /\ mon.pc # "callback")
             => mon.pc \in Kinds \ {"load"}]_vars
    /\ [][\A k \in DOMAIN lastAlerts :
             k \in DOMAIN lastAlerts' /\ lastAlerts'[k] >= lastAlerts[k]]_vars

\* The callback has returned without delivering the disk alert, in a health
\* check in which the "cpu" stamp, made before, is still in place.
C35_Witness ==
    /\ mon.pc = "stamp" /\ mon.kind = "disk" /\ ~mon.sent
    /\ "cpu" \in DOMAIN lastAlerts
    /\ "disk" \notin DOMAIN lastAlerts

\* C36: no step removes a session or a lastAlerts entry: an identity that
\* has a session has one in every later state, an alert type that has a
\* lastAlerts entry has one in every later state, and the time in a
\* lastAlerts entry never decreases.
C36_EntriesNeverEvicted ==
    [][/\ \A u \in DOMAIN sessions : u \in DOMAIN sessions'
       /\ \A k \in DOMAIN lastAlerts :
             k \in DOMAIN lastAlerts' /\ lastAlerts'[k] >= lastAlerts[k]]_vars

\* A session begun after the start and used again by a later update, while
\* the "cpu" entry, stamped a second time, and the older memory entry are
\* both there.
C36_Witness ==
    /\ 1 \in DOMAIN sessions
    /\ sessions[1].StartTime > 0 /\ sessions[1].StartTime < now
    /\ 1 \in DOMAIN rateLimits /\ rateLimits[1].WindowStart > sessions[1].StartTime
    /\ Len(cpuLog) = 2 /\ cpuLog[2].prior /\ cpuLog[2].fired
    /\ "cpu" \in DOMAIN lastAlerts /\ lastAlerts["cpu"] >= cpuLog[2].at
    /\ "memory" \in DOMAIN lastAlerts /\ lastAlerts["memory"] < lastAlerts["cpu"]

\* The map a GetAlertHistory caller holds, as the caller sees it.
History == IF qry.ref = "engine" THEN lastAlerts ELSE qry.map

\* C37: lastAlerts is written only by the goroutine that holds mm.mu as
\* writer and read only by goroutines that hold it as readers, and never
\* both at once; and the map GetAlertHistory returned is the caller's own:
\* a change the caller makes to it leaves lastAlerts as it was, and a later
\* stamp leaves the returned map as it was.
C37_CooldownMapUnderLock ==
    /\ [](mmu.w # 0 => mmu.r = {})
    /\ [][lastAlerts' # lastAlerts => (mmu.w = EngId /\ eng.pc = "write")]_vars
    /\ [][(eng.pc = "read" /\ eng'.pc # "read") => EngId \in mmu.r]_vars
    /\ [][(qry.pc = "copy" /\ qry'.pc # "copy") => QryId \in mmu.r]_vars
    /\ [][(qry.pc = "held" /\ qry'.pc = "held")
             => /\ qry' # qry => lastAlerts' = lastAlerts
                /\ lastAlerts' # lastAlerts => History' = History]_vars

\* The caller has deleted the "cpu" entry of the map it was given, and the
\* engine has stamped "memory" since: lastAlerts has both entries, the
\* caller's map neither.
C37_Witness ==
    /\ qry.pc = "held" /\ qry.map = << >>
    /\ "cpu" \in DOMAIN lastAlerts /\ "memory" \in DOMAIN lastAlerts
    /\ lastAlerts["memory"] > lastAlerts["cpu"]
    /\ eng.pc = "idle"

\* The workers inside the loop of StartMonitoring.
Looping == {w \in Workers : sm[w].pc \in {"select", "check"}}

\* C38: however StartMonitoring calls interleave, at most one of them is in
\* the loop, so no two health checks of the manager run at once; a call that
\* finds isRunning true returns without entering the loop and leaves
\* isRunning true.
C38_OneMonitoringLoop ==
    /\ [](Cardinality(Looping) <= 1)
    /\ [](Looping # {} => isRunning)
    /\ [][\A w \in Workers :
             /\ (sm[w].pc = "test" /\ sm'[w].pc # "test" /\ isRunning)
                   => (sm'[w].pc = "refuse" /\ isRunning')
             /\ (sm[w].pc = "refuse" /\ sm'[w].pc # "refuse")
                   => (sm'[w].pc = "idle" /\ isRunning' = isRunning)]_vars

\* A call is being refused while another worker is in a health check.
C38_Witness ==
    \E w1, w2 \in Workers :
        /\ sm[w1].pc = "check"
        /\ sm[w2].pc = "refuse"
        /\ isRunning /\ mmu.w = w2

\* C39 as stated: a configuration that LoadConfig has given its defaults and
\* Validate has passed has RateLimitCommands >= 1 and RateLimitWindow > 0.
C39_ValidatedRateLimits ==
    config.RateLimitCommands >= 1 /\ config.RateLimitWindow > 0

\* C40: after ClearRateLimit(u) the identity u has no entry; the next
\* CheckRateLimit(u) is admitted and starts a window with Commands = 1 at the
\* time of that call, whatever the entry was before the clear; and a
\* ClearRateLimit(u) made when u has no entry leaves the map as it was.
C40_ClearThenFreshWindow ==
    [][/\ ret'.op = "ClearRateLimit" => ret'.user \notin DOMAIN rateLimits'
       /\ (ret.op = "ClearRateLimit" /\ ret'.op = "CheckRateLimit"
              /\ ret'.user = ret.user)
             => /\ ret'.ok
                /\ Entry(rateLimits', ret.user)
                      = <<[Commands |-> 1, WindowStart |-> now']>>
       /\ (ret'.op = "ClearRateLimit" /\ ret'.user \notin DOMAIN rateLimits)
             => rateLimits' = rateLimits]_vars

\* An admitted call whose window starts now although the identity's first
\* call was earlier and no longer ago than RateLimitWindow: the window that
\* first call opened would still be running had it not been cleared.
C40_Witness ==
    /\ ret.op = "CheckRateLimit"
    /\ ret.ok
    /\ hist[ret.user].first >= 0
    /\ hist[ret.user].first < now
    /\ now - hist[ret.user].first <= config.RateLimitWindow
    /\ Entry(rateLimits, ret.user) = <<[Commands |-> 1, WindowStart |-> now]>>

====
